---- MODULE Spec2Model ----
(***************************************************************************)
(* A model of the vaulta-simulator core: the Portfolio/Position data       *)
(* model (src/src/types.rs), the five built-in routing strategies          *)
(* (src/src/strategy.rs), the Simulator engine (src/src/simulator.rs) and  *)
(* the Monte Carlo engine (src/src/monte_carlo.rs).                        *)
(*                                                                         *)
(* Decimal values are fixed-point integers.  rust_decimal keeps up to 28   *)
(* fractional digits and rounds a product or quotient that needs more;     *)
(* the model counts money and quantities in units of 1/MoneyScale and      *)
(* prices, rates and ratios in units of 1/PriceScale, and rounds every     *)
(* product and quotient to its unit.                                       *)
(* Sums and differences are exact, as in the code.                         *)
(*                                                                         *)
(* Timestamps (OffsetDateTime::now_utc) and display names are left out:    *)
(* no operation reads them.                                                *)
(***************************************************************************)
EXTENDS Integers, Sequences, FiniteSets, TLC

VARIABLES
    strategy,           \* Simulator.strategy: the variant's name
    portfolio,          \* Simulator.portfolio: [positions, cash, total_value]
    step_count,         \* Simulator.step_count
    portfolio_history,  \* Simulator.portfolio_history: Seq of snapshots
    market_state,       \* Simulator.market_state: symbol -> price
    phase,              \* "Running" while the Simulator value is owned by the
                        \* caller, "Finalized" once finalize(self) consumed it
    results,            \* value returned by finalize(), NoResults before
    step_result,        \* value returned by the last step() call
    exec_log,           \* the execute_routing calls of the last step() call
    last_op,            \* the Portfolio method called last and the
                        \* number of calls made (PortfolioSpec)
    mc,                 \* the run of MonteCarloEngine::run_stress_test (MCSpec)
    sel,                \* the Strategy obtained last and the calls of its
                        \* generate_routing_decisions (StrategySpec)
    calc                \* the metric function called last, its arguments
                        \* and its result (MetricsSpec)

vars == <<strategy, portfolio, step_count, portfolio_history, market_state,
          phase, results, step_result, exec_log, last_op, mc, sel, calc>>

----------------------------------------------------------------------------
(* Bounds of the model *)

\* money and quantities are counted in units of 1/MoneyScale
MoneyScale == 100
\* prices, rates and ratios are counted in units of 1/PriceScale
PriceScale == 10000
\* number of step() calls explored on one Simulator
MaxSteps == 3

\* number of Portfolio method calls explored on one Portfolio
MaxCalls == 3

\* initial capitals handed to Simulator::new (whole currency units)
InitialCapitals == {0, 1000, 2600, 4000, 1000000}

\* values of rng.gen::<f64>() - 0.5, a uniform draw from [-0.5, 0.5),
\* in units of 1/PriceScale
Shocks == {-(PriceScale \div 2), (PriceScale \div 2) - 1}

----------------------------------------------------------------------------
(* Decimal arithmetic *)

Abs(x) == IF x < 0 THEN -x ELSE x

\* a * b = q * c + r with 0 <= r < c, for a, b >= 0 and c > 0, computed
\* by halving b so that no intermediate value leaves the 32-bit range
RECURSIVE MulDivMod(_, _, _)
MulDivMod(a, b, c) ==
    IF b = 0 THEN [q |-> 0, r |-> 0]
    ELSE LET h  == MulDivMod(a, b \div 2, c)
             q2 == 2 * h.q + (IF b % 2 = 1 THEN a \div c ELSE 0)
             r2 == 2 * h.r + (IF b % 2 = 1 THEN a % c ELSE 0)
         IN  [q |-> q2 + (r2 \div c), r |-> r2 % c]

\* a * b / c rounded to the nearest unit, a tie away from zero
MulDiv(a, b, c) ==
    LET m   == MulDivMod(Abs(a), Abs(b), Abs(c))
        mag == IF 2 * m.r >= Abs(c) THEN m.q + 1 ELSE m.q
        neg == ((a < 0) /= (b < 0)) /= (c < 0)
    IN  IF neg THEN -mag ELSE mag

\* the decimal literal n/d in units of 1/scale
Dec(n, d, scale) == MulDiv(n, scale, d)

\* x * dec!(n/d), x and the product in the same unit
MulLit(x, n, d) == MulDiv(x, n, d)

\* whole currency units as money
Money(n) == n * MoneyScale

\* amount / price: a quantity
Quantity(amount, price) == MulDiv(amount, PriceScale, price)

\* quantity * price: a value
Value(quantity, price) == MulDiv(quantity, price, PriceScale)

----------------------------------------------------------------------------
(* f64 arithmetic *)
(* An f64 is sign * mantissa * 2^exponent with a mantissa of FPrec bits.   *)
(* Mantissas and the exact intermediate results are natural numbers kept   *)
(* as sequences of limbs (digits in base LimbBase), least significant      *)
(* first, without leading zero limbs; every operation rounds its exact     *)
(* result to FPrec bits, to nearest, a tie to even, as IEEE 754 does.      *)
(* Exponents are unbounded: no value of the model leaves the f64 range.    *)

\* mantissa bits of an f64
FPrec == 53

\* bits of a limb, and the base
LimbBits == 15
LimbBase == 2 ^ LimbBits

Limb(a, i) == IF i \in DOMAIN a THEN a[i] ELSE 0

\* a without its leading zero limbs
LTrim(a) ==
    IF \E i \in DOMAIN a : a[i] /= 0
    THEN SubSeq(a, 1, CHOOSE i \in DOMAIN a :
                          a[i] /= 0 /\ \A j \in (i + 1)..Len(a) : a[j] = 0)
    ELSE <<>>

\* the limbs of n < 2^31
LFromNat(n) ==
    LTrim(<<n % LimbBase, (n \div LimbBase) % LimbBase,
            n \div (LimbBase * LimbBase)>>)

\* the number of a, for a < 2^31
RECURSIVE LToNat(_)
LToNat(a) == IF a = <<>> THEN 0 ELSE Head(a) + LimbBase * LToNat(Tail(a))

\* bit i of a, bit 1 the least significant
LBit(a, i) ==
    (Limb(a, ((i - 1) \div LimbBits) + 1) \div (2 ^ ((i - 1) % LimbBits))) % 2

\* number of bits up to the highest set bit
LBitLen(a) ==
    IF a = <<>> THEN 0
    ELSE LimbBits * (Len(a) - 1)
            + (CHOOSE n \in 1..LimbBits :
                    2 ^ (n - 1) <= a[Len(a)] /\ a[Len(a)] < 2 ^ n)

\* a * 2^k
LShl(a, k) ==
    LTrim([i \in 1..(Len(a) + (k \div LimbBits) + 1) |->
            ((Limb(a, i - (k \div LimbBits)) * (2 ^ (k % LimbBits))) % LimbBase)
            + (Limb(a, i - (k \div LimbBits) - 1)
                    \div (2 ^ (LimbBits - (k % LimbBits))))])

\* floor(a / 2^k)
LShr(a, k) ==
    IF k \div LimbBits >= Len(a) THEN <<>>
    ELSE LTrim([i \in 1..(Len(a) - (k \div LimbBits)) |->
            (a[i + (k \div LimbBits)] \div (2 ^ (k % LimbBits)))
            + ((Limb(a, i + (k \div LimbBits) + 1) % (2 ^ (k % LimbBits)))
                    * (2 ^ (LimbBits - (k % LimbBits))))])

\* some of the k lowest bits of a is set
LLowBits(a, k) == LShl(LShr(a, k), k) /= a

\* a >= b
LGeq(a, b) ==
    LET differ == {i \in (DOMAIN a) \cup (DOMAIN b) : Limb(a, i) /= Limb(b, i)}
    IN  \/ differ = {}
        \/ LET top == CHOOSE i \in differ : \A j \in differ : j <= i
           IN  Limb(a, top) > Limb(b, top)

RECURSIVE LAddFrom(_, _, _, _)
LAddFrom(a, b, i, carry) ==
    IF i > Len(a) /\ i > Len(b)
    THEN IF carry > 0 THEN <<carry>> ELSE <<>>
    ELSE <<(Limb(a, i) + Limb(b, i) + carry) % LimbBase>>
            \o LAddFrom(a, b, i + 1, (Limb(a, i) + Limb(b, i) + carry) \div LimbBase)

\* a + b
LAdd(a, b) == LAddFrom(a, b, 1, 0)

RECURSIVE LSubFrom(_, _, _, _)
LSubFrom(a, b, i, borrow) ==
    IF i > Len(a) THEN <<>>
    ELSE <<(a[i] - Limb(b, i) - borrow) % LimbBase>>
            \o LSubFrom(a, b, i + 1, IF a[i] - Limb(b, i) - borrow < 0 THEN 1 ELSE 0)

\* a - b for a >= b
LSub(a, b) == LTrim(LSubFrom(a, b, 1, 0))

RECURSIVE LMulSmallFrom(_, _, _, _)
LMulSmallFrom(a, d, i, carry) ==
    IF i > Len(a)
    THEN IF carry > 0 THEN <<carry>> ELSE <<>>
    ELSE <<(a[i] * d + carry) % LimbBase>>
            \o LMulSmallFrom(a, d, i + 1, (a[i] * d + carry) \div LimbBase)

\* a * d + c for d, c < LimbBase
LMulSmall(a, d, c) == LTrim(LMulSmallFrom(a, d, 1, c))

RECURSIVE LMulFrom(_, _, _)
LMulFrom(a, b, j) ==
    IF j > Len(b) THEN <<>>
    ELSE LAdd([i \in 1..(j - 1) |-> 0] \o LMulSmallFrom(a, b[j], 1, 0),
              LMulFrom(a, b, j + 1))

\* a * b
LMul(a, b) == LTrim(LMulFrom(a, b, 1))

\* The loops of long division and of the square root.  LStep is the body of
\* loop `op` at its i-th round, LLoop runs the rounds lo..hi in order (by
\* halves, the first half evaluated before the second one starts, which
\* keeps the evaluation shallow).
\*   "div":  a / b bit by bit, the bits of a taken from the top;
\*           out the quotient, rem the remainder
\*   "sqrt": the square root of a, two bits of a at a time from the top;
\*           out the root, rem the remainder
RECURSIVE LLoop(_, _, _, _, _, _, _)
LTake(st, rem, sub) ==
    IF LGeq(rem, sub)
    THEN [out |-> LMulSmall(st.out, 2, 1), rem |-> LSub(rem, sub)]
    ELSE [out |-> LMulSmall(st.out, 2, 0), rem |-> rem]

LStep(op, a, b, n, st, i) ==
    IF op = "div"
    THEN LTake(st, LMulSmall(st.rem, 2, LBit(a, n + 1 - i)), b)
    ELSE LTake(st, LMulSmall(st.rem, 4, 2 * LBit(a, n + 2 - 2 * i)
                                            + LBit(a, n + 1 - 2 * i)),
               LMulSmall(st.out, 4, 1))

LLoop(op, a, b, n, st, lo, hi) ==
    IF lo > hi THEN st
    ELSE IF lo = hi THEN LStep(op, a, b, n, st, lo)
    ELSE CHOOSE r \in { LLoop(op, a, b, n, half, ((lo + hi) \div 2) + 1, hi) :
                          half \in {LLoop(op, a, b, n, st, lo, (lo + hi) \div 2)} } : TRUE

\* [out |-> floor(a / b), rem |-> a mod b]
LDivMod(a, b) ==
    LLoop("div", a, b, LBitLen(a), [out |-> <<>>, rem |-> <<>>], 1, LBitLen(a))

\* [out |-> floor(sqrt(a)), rem |-> a - out * out]
LSqrt(a) ==
    LLoop("sqrt", a, <<>>, 2 * ((LBitLen(a) + 1) \div 2),
          [out |-> <<>>, rem |-> <<>>], 1, (LBitLen(a) + 1) \div 2)

FZero == [k |-> "num", s |-> 1, m |-> <<>>, e |-> 0]
FNaN == [k |-> "nan", s |-> 1, m |-> <<>>, e |-> 0]
FInf(s) == [k |-> "inf", s |-> s, m |-> <<>>, e |-> 0]

FNum(s, m, e) == [k |-> "num", s |-> s, m |-> m, e |-> e]

FIsZero(x) == x.k = "num" /\ x.m = <<>>

\* the mantissa may have grown to FPrec + 1 bits when it was rounded up
FRoundUp(s, m1, e) ==
    IF LBitLen(m1) > FPrec THEN FNum(s, LShr(m1, 1), e + 1)
    ELSE FNum(s, m1, e)

\* the exact value is a * 2^e with n > FPrec bits: to nearest, a tie to even
FRoundCut(s, a, e, n) ==
    IF LBit(a, n - FPrec) = 1
        /\ (LLowBits(a, n - FPrec - 1) \/ LBit(a, n - FPrec + 1) = 1)
    THEN FRoundUp(s, LMulSmall(LShr(a, n - FPrec), 1, 1), e + (n - FPrec))
    ELSE FNum(s, LShr(a, n - FPrec), e + (n - FPrec))

FRoundLen(s, a, e, n) ==
    IF n = 0 THEN [FZero EXCEPT !.s = s]
    ELSE IF n <= FPrec THEN FNum(s, LShl(a, FPrec - n), e - (FPrec - n))
    ELSE FRoundCut(s, a, e, n)

\* the f64 nearest to s * a * 2^e
FRound(s, a, e) == FRoundLen(s, a, e, LBitLen(a))

\* n as f64
FFromInt(n) == FRound(IF n < 0 THEN -1 ELSE 1, LFromNat(IF n < 0 THEN -n ELSE n), 0)

FNeg(x) == [x EXCEPT !.s = -x.s]
FAbs(x) == [x EXCEPT !.s = 1]

\* |x| >= |y| for finite non-zero x, y
FMagGeq(x, y) == x.e > y.e \/ (x.e = y.e /\ LGeq(x.m, y.m))

\* x + y for finite non-zero x, y with |x| >= |y|
FAddAligned(x, y) ==
    IF x.e - y.e > FPrec + 2 THEN x
    ELSE IF x.s = y.s
    THEN FRound(x.s, LAdd(LShl(x.m, x.e - y.e), y.m), y.e)
    ELSE FRound(x.s, LSub(LShl(x.m, x.e - y.e), y.m), y.e)

FAddNum(x, y) ==
    IF FIsZero(x) THEN (IF FIsZero(y) /\ x.s /= y.s THEN FZero ELSE y)
    ELSE IF FIsZero(y) THEN x
    ELSE IF x.s /= y.s /\ x.e = y.e /\ x.m = y.m THEN FZero
    ELSE IF FMagGeq(x, y) THEN FAddAligned(x, y) ELSE FAddAligned(y, x)

\* x + y
FAdd(x, y) ==
    IF x.k = "nan" \/ y.k = "nan" THEN FNaN
    ELSE IF x.k = "inf" THEN (IF y.k = "inf" /\ y.s /= x.s THEN FNaN ELSE x)
    ELSE IF y.k = "inf" THEN y
    ELSE FAddNum(x, y)

\* x - y
FSub(x, y) == FAdd(x, FNeg(y))

\* x * y
FMul(x, y) ==
    IF x.k = "nan" \/ y.k = "nan" THEN FNaN
    ELSE IF x.k = "inf" \/ y.k = "inf"
    THEN (IF FIsZero(x) \/ FIsZero(y) THEN FNaN ELSE FInf(x.s * y.s))
    ELSE IF FIsZero(x) \/ FIsZero(y) THEN [FZero EXCEPT !.s = x.s * y.s]
    ELSE FRound(x.s * y.s, LMul(x.m, y.m), x.e + y.e)

\* the quotient or root with one more bit that tells of a remainder
FSticky(qr) == LMulSmall(qr.out, 2, IF qr.rem = <<>> THEN 0 ELSE 1)

\* x / y
FDiv(x, y) ==
    IF x.k = "nan" \/ y.k = "nan" THEN FNaN
    ELSE IF x.k = "inf" THEN (IF y.k = "inf" THEN FNaN ELSE FInf(x.s * y.s))
    ELSE IF y.k = "inf" THEN [FZero EXCEPT !.s = x.s * y.s]
    ELSE IF FIsZero(y) THEN (IF FIsZero(x) THEN FNaN ELSE FInf(x.s * y.s))
    ELSE IF FIsZero(x) THEN [FZero EXCEPT !.s = x.s * y.s]
    ELSE FRound(x.s * y.s, FSticky(LDivMod(LShl(x.m, FPrec + 3), y.m)),
                x.e - y.e - (FPrec + 3) - 1)

\* x.sqrt()
FSqrt(x) ==
    IF x.k = "nan" THEN FNaN
    ELSE IF FIsZero(x) THEN x
    ELSE IF x.s < 0 THEN FNaN
    ELSE IF x.k = "inf" THEN x
    ELSE IF x.e % 2 = 0
    THEN FRound(1, FSticky(LSqrt(LShl(x.m, FPrec + 5))),
                ((x.e - (FPrec + 5)) \div 2) - 1)
    ELSE FRound(1, FSticky(LSqrt(LShl(x.m, FPrec + 6))),
                ((x.e - (FPrec + 6)) \div 2) - 1)

\* x > y
FGt(x, y) ==
    IF x.k = "nan" \/ y.k = "nan" THEN FALSE
    ELSE IF x.k = "inf" THEN x.s > 0 /\ ~(y.k = "inf" /\ y.s > 0)
    ELSE IF y.k = "inf" THEN y.s < 0
    ELSE ~FIsZero(FSub(x, y)) /\ FSub(x, y).s > 0

\* x as usize: the integer part of a finite x >= 0, 0 for a negative x or NaN
FToUsize(x) ==
    IF x.k /= "num" \/ x.s < 0 \/ FIsZero(x) THEN 0
    ELSE IF x.e >= 0 THEN LToNat(LShl(x.m, x.e))
    ELSE LToNat(LShr(x.m, -x.e))

FOne == FFromInt(1)

\* the f64 a decimal literal num/den denotes: the one nearest to it
FLit(num, den) == FDiv(FFromInt(num), FFromInt(den))

\* x < 0.0
FIsNegative(x) == FGt(FZero, x)

\* values.iter().sum::<f64>(): the values added one after the other
RECURSIVE FSumFrom(_, _, _)
FSumFrom(values, i, acc) ==
    IF i > Len(values) THEN acc
    ELSE FSumFrom(values, i + 1, FAdd(acc, values[i]))

FSum(values) == FSumFrom(values, 1, FZero)

\* values.sort_by(|a, b| a.partial_cmp(b).unwrap()), a stable ascending sort
FSortAscending(values) ==
    LET n    == Len(values)
        rank == [k \in 1..n |->
                    Cardinality({j \in 1..n :
                        \/ FGt(values[k], values[j])
                        \/ (~FGt(values[j], values[k]) /\ j <= k)})]
    IN  [i \in 1..n |-> values[CHOOSE k \in 1..n : rank[k] = i]]

\* Decimal::to_f64 of an amount of money
MoneyToF64(v) == FLit(v, MoneyScale)

\* v * Decimal::from_f64_retain(x) for money v >= 0 and a finite x >= 0: the
\* product in units of money, rounded to the nearest unit
MoneyTimesF64(v, x) ==
    IF FIsZero(x) \/ v = 0 THEN 0
    ELSE IF x.e >= 0 THEN LToNat(LShl(LMul(LFromNat(v), x.m), x.e))
    ELSE LToNat(LShr(LMul(LFromNat(v), x.m), -x.e))
            + LBit(LMul(LFromNat(v), x.m), -x.e)

----------------------------------------------------------------------------
(* types.rs: Position and Portfolio *)

EmptyMap == [s \in {} |-> 0]

\* Position::new(asset, quantity, entry_price)
PositionNew(current_price, volatility, yield_rate, quantity, entry_price) ==
    [ current_price |-> current_price,
      volatility    |-> volatility,
      yield_rate    |-> yield_rate,
      quantity      |-> quantity,
      entry_price   |-> entry_price,
      current_value |-> Value(quantity, current_price) ]

\* Position::update_price
PositionUpdatePrice(pos, new_price) ==
    [pos EXCEPT !.current_price = new_price,
                !.current_value = Value(pos.quantity, new_price)]

\* Portfolio::new
PortfolioNew(initial_cash) ==
    [positions |-> EmptyMap, cash |-> initial_cash, total_value |-> initial_cash]

RECURSIVE SumValues(_, _)
SumValues(positions, syms) ==
    IF syms = {} THEN 0
    ELSE LET s == CHOOSE x \in syms : TRUE
         IN  positions[s].current_value + SumValues(positions, syms \ {s})

\* sum of current_value over the held positions
PositionsValue(pf) == SumValues(pf.positions, DOMAIN pf.positions)

\* an update_total_value that leaves the cash out of the sum
UpdateTotalValueWithoutCash(pf) ==
    [pf EXCEPT !.total_value = PositionsValue(pf)]

\* Portfolio::update_total_value
UpdateTotalValue(pf) ==
    [pf EXCEPT !.total_value = pf.cash + PositionsValue(pf)]

\* HashMap::insert
MapInsert(m, k, v) ==
    [s \in (DOMAIN m) \cup {k} |-> IF s = k THEN v ELSE m[s]]

\* HashMap::remove
MapRemove(m, k) == [s \in (DOMAIN m) \ {k} |-> m[s]]

\* Portfolio::add_position
AddPosition(pf, symbol, pos) ==
    UpdateTotalValue(
        [pf EXCEPT !.cash = pf.cash - pos.current_value,
                   !.positions = MapInsert(pf.positions, symbol, pos)])

\* a remove_position that drops the position without crediting its value
RemovePositionWithoutCredit(pf, symbol) ==
    IF symbol \in DOMAIN pf.positions
    THEN UpdateTotalValue(
             [pf EXCEPT !.positions = MapRemove(pf.positions, symbol)])
    ELSE pf

\* Portfolio::remove_position: the portfolio afterwards
RemovePosition(pf, symbol) ==
    IF symbol \in DOMAIN pf.positions
    THEN UpdateTotalValue(
             [pf EXCEPT !.cash = pf.cash + pf.positions[symbol].current_value,
                        !.positions = MapRemove(pf.positions, symbol)])
    ELSE pf

\* Portfolio::update_prices
UpdatePrices(pf, price_updates) ==
    UpdateTotalValue(
        [pf EXCEPT !.positions =
            [s \in DOMAIN pf.positions |->
                IF s \in DOMAIN price_updates
                THEN PositionUpdatePrice(pf.positions[s], price_updates[s])
                ELSE pf.positions[s]]])

----------------------------------------------------------------------------
(* strategy.rs: the five built-in strategies *)

StrategyNames ==
    {"conservative", "balanced", "aggressive", "yield_maximizer", "risk_parity"}

\* A strategy name is a sequence of characters.
NameConservative == <<"c", "o", "n", "s", "e", "r", "v", "a", "t", "i", "v", "e">>
NameBalanced == <<"b", "a", "l", "a", "n", "c", "e", "d">>
NameAggressive == <<"a", "g", "g", "r", "e", "s", "s", "i", "v", "e">>
NameYield == <<"y", "i", "e", "l", "d">>
NameYieldMaximizer == NameYield \o <<"_", "m", "a", "x", "i", "m", "i", "z", "e", "r">>
NameRisk == <<"r", "i", "s", "k">>
NameRiskParity == NameRisk \o <<"_", "p", "a", "r", "i", "t", "y">>

UpperCase == <<"A", "B", "C", "D", "E", "F", "G", "H", "I", "J", "K", "L", "M",
               "N", "O", "P", "Q", "R", "S", "T", "U", "V", "W", "X", "Y", "Z">>
LowerCase == <<"a", "b", "c", "d", "e", "f", "g", "h", "i", "j", "k", "l", "m",
               "n", "o", "p", "q", "r", "s", "t", "u", "v", "w", "x", "y", "z">>

\* char::to_lowercase
CharToLowercase(c) ==
    IF \E i \in DOMAIN UpperCase : UpperCase[i] = c
    THEN LowerCase[CHOOSE i \in DOMAIN UpperCase : UpperCase[i] = c]
    ELSE c

\* str::to_lowercase
ToLowercase(name) == [i \in DOMAIN name |-> CharToLowercase(name[i])]

\* Strategy::conservative(), ::balanced(), ::aggressive(), ::yield_maximizer(),
\* ::risk_parity(): the variant built
StrategyConservative == "conservative"
StrategyBalanced == "balanced"
StrategyAggressive == "aggressive"
StrategyYieldMaximizer == "yield_maximizer"
StrategyRiskParity == "risk_parity"

StrategyOk(strat) == [ok |-> TRUE, strategy |-> strat]
UnknownStrategy == [ok |-> FALSE, error |-> "unknown_strategy"]

\* a from_name that matches the name as it was typed
FromNameCaseSensitive(name) ==
    CASE name = NameConservative -> StrategyOk(StrategyConservative)
      [] name = NameBalanced -> StrategyOk(StrategyBalanced)
      [] name = NameAggressive -> StrategyOk(StrategyAggressive)
      [] name \in {NameYieldMaximizer, NameYield} -> StrategyOk(StrategyYieldMaximizer)
      [] name \in {NameRiskParity, NameRisk} -> StrategyOk(StrategyRiskParity)
      [] OTHER -> UnknownStrategy

\* a from_name whose alias "yield" builds the aggressive variant
FromNameYieldAggressive(name) ==
    IF ToLowercase(name) = NameYield THEN StrategyOk(StrategyAggressive)
    ELSE FromNameCaseSensitive(ToLowercase(name))

\* Strategy::from_name
FromName(name) ==
    CASE ToLowercase(name) = NameConservative -> StrategyOk(StrategyConservative)
      [] ToLowercase(name) = NameBalanced -> StrategyOk(StrategyBalanced)
      [] ToLowercase(name) = NameAggressive -> StrategyOk(StrategyAggressive)
      [] ToLowercase(name) \in {NameYieldMaximizer, NameYield} ->
            StrategyOk(StrategyYieldMaximizer)
      [] ToLowercase(name) \in {NameRiskParity, NameRisk} ->
            StrategyOk(StrategyRiskParity)
      [] OTHER -> UnknownStrategy

\* Strategy::list_all
ListAll == <<NameConservative, NameBalanced, NameAggressive,
             NameYieldMaximizer, NameRiskParity>>

\* <Strategy as RoutingStrategy>::name
StrategyName(strat) ==
    CASE strat = "conservative"    -> NameConservative
      [] strat = "balanced"        -> NameBalanced
      [] strat = "aggressive"      -> NameAggressive
      [] strat = "yield_maximizer" -> NameYieldMaximizer
      [] strat = "risk_parity"     -> NameRiskParity

Decision(target, amount, yield, risk, cost) ==
    [ target_asset   |-> target,
      amount         |-> amount,
      expected_yield |-> yield,
      risk_score     |-> risk,
      execution_cost |-> cost ]

\* a conservative strategy without the 1,000 floor on the allocation
ConservativeDecisionsNoFloor(pf) ==
    IF pf.cash < MulLit(pf.total_value, 1, 10) THEN <<>>
    ELSE << Decision("USDC", MulLit(pf.cash, 3, 10),
                     Dec(5, 100, PriceScale), Dec(1, 10, PriceScale),
                     MulLit(MulLit(pf.cash, 3, 10), 1, 1000)) >>

\* ConservativeStrategy::generate_routing_decisions
ConservativeDecisions(pf) ==
    IF pf.cash < MulLit(pf.total_value, 1, 10) THEN <<>>
    ELSE LET allocation_amount == MulLit(pf.cash, 3, 10)
         IN  IF allocation_amount > Money(1000)
             THEN << Decision("USDC", allocation_amount,
                              Dec(5, 100, PriceScale), Dec(1, 10, PriceScale),
                              MulLit(allocation_amount, 1, 1000)) >>
             ELSE <<>>

\* the loop of the balanced and risk-parity strategies over their targets
RECURSIVE TrancheDecisions(_, _, _, _, _)
TrancheDecisions(pf, targets, allocation, yield, risk) ==
    IF targets = <<>> THEN <<>>
    ELSE LET rest == TrancheDecisions(pf, Tail(targets), allocation, yield, risk)
         IN  IF Head(targets) \notin DOMAIN pf.positions /\ allocation > Money(500)
             THEN << Decision(Head(targets), allocation, yield, risk,
                              MulLit(allocation, 2, 1000)) >> \o rest
             ELSE rest

\* a balanced strategy that does not look at what is held
BalancedDecisionsWithHeld(pf) ==
    IF pf.cash < Money(1000) THEN <<>>
    ELSE TrancheDecisions([pf EXCEPT !.positions = EmptyMap],
                          <<"USDC", "ETH", "BTC", "SOL", "MATIC">>,
                          MulLit(pf.cash, 2, 10),
                          Dec(8, 100, PriceScale), Dec(5, 10, PriceScale))

\* BalancedStrategy::generate_routing_decisions
BalancedDecisions(pf) ==
    IF pf.cash < Money(1000) THEN <<>>
    ELSE TrancheDecisions(pf, <<"USDC", "ETH", "BTC", "SOL", "MATIC">>,
                          MulLit(pf.cash, 2, 10),
                          Dec(8, 100, PriceScale), Dec(5, 10, PriceScale))

\* AggressiveStrategy::generate_routing_decisions
AggressiveDecisions(pf) ==
    IF pf.cash < Money(1000) THEN <<>>
    ELSE LET allocation_amount == MulLit(pf.cash, 6, 10)
         IN  << Decision("HIGH_YIELD_POOL", allocation_amount,
                         Dec(20, 100, PriceScale), Dec(8, 10, PriceScale),
                         MulLit(allocation_amount, 5, 1000)) >>

\* YieldMaximizerStrategy::generate_routing_decisions
YieldMaximizerDecisions(pf) ==
    IF pf.cash > Money(1000)
    THEN << Decision("MAX_YIELD", MulLit(pf.cash, 9, 10),
                     Dec(25, 100, PriceScale), Dec(7, 10, PriceScale),
                     MulLit(pf.cash, 3, 1000)) >>
    ELSE <<>>

\* RiskParityStrategy::generate_routing_decisions
RiskParityDecisions(pf) ==
    IF pf.cash < Money(1000) THEN <<>>
    ELSE TrancheDecisions(pf, <<"USDC", "ETH", "BTC", "SOL">>,
                          MulDiv(pf.cash, 1, 4),
                          Dec(10, 100, PriceScale), Dec(4, 10, PriceScale))

\* a dispatch whose balanced variant skips the symbols the market map quotes
GenerateRoutingDecisionsByMarket(strat, pf, ms) ==
    CASE strat = "conservative"    -> ConservativeDecisions(pf)
      [] strat = "balanced"        ->
            SelectSeq(BalancedDecisions(pf),
                      LAMBDA d : d.target_asset \notin DOMAIN ms)
      [] strat = "aggressive"      -> AggressiveDecisions(pf)
      [] strat = "yield_maximizer" -> YieldMaximizerDecisions(pf)
      [] strat = "risk_parity"     -> RiskParityDecisions(pf)

\* <Strategy as RoutingStrategy>::generate_routing_decisions
GenerateRoutingDecisions(strat, pf, ms) ==
    CASE strat = "conservative"    -> ConservativeDecisions(pf)
      [] strat = "balanced"        -> BalancedDecisions(pf)
      [] strat = "aggressive"      -> AggressiveDecisions(pf)
      [] strat = "yield_maximizer" -> YieldMaximizerDecisions(pf)
      [] strat = "risk_parity"     -> RiskParityDecisions(pf)

----------------------------------------------------------------------------
(* simulator.rs: the Simulator *)

NoResults == [finalized |-> FALSE]

\* dt = 1.0 / 365.0 as a Decimal
DtDecimal == Dec(1, 365, PriceScale)

\* dt.sqrt(): the largest r with r * r * 365 <= PriceScale * PriceScale
SqrtDt == CHOOSE r \in 0..PriceScale :
              /\ r * r * 365 <= PriceScale * PriceScale
              /\ (r + 1) * (r + 1) * 365 > PriceScale * PriceScale

\* the price a position moves to in update_market_prices, given its draw
EvolvedPrice(pos, random_shock) ==
    LET drift_term   == MulDiv(pos.yield_rate, DtDecimal, PriceScale)
        shock_term   == MulDiv(MulDiv(random_shock, SqrtDt, PriceScale),
                               pos.volatility, PriceScale)
        price_change == drift_term + shock_term
    IN  MulDiv(pos.current_price, PriceScale + price_change, PriceScale)

\* Simulator::update_market_prices: the positions afterwards
EvolvedPositions(pf, shock) ==
    [s \in DOMAIN pf.positions |->
        PositionUpdatePrice(pf.positions[s], EvolvedPrice(pf.positions[s], shock[s]))]

\* a market map that also quotes MATIC, held or not, at 2.0
EvolvedMarketQuotingMatic(ms, positions) ==
    [s \in (DOMAIN ms) \cup (DOMAIN positions) \cup {"MATIC"} |->
        IF s \in DOMAIN positions THEN positions[s].current_price
        ELSE IF s \in DOMAIN ms THEN ms[s]
        ELSE 2 * PriceScale]

\* Simulator::update_market_prices: the market map afterwards
EvolvedMarket(ms, positions) ==
    [s \in (DOMAIN ms) \cup (DOMAIN positions) |->
        IF s \in DOMAIN positions THEN positions[s].current_price ELSE ms[s]]

\* execute_routing, the branch of a target that is already held
TopUpPosition(pf, d) ==
    LET pos == pf.positions[d.target_asset]
        additional_quantity == Quantity(d.amount, pos.current_price)
    IN  [pf EXCEPT !.positions[d.target_asset] =
            [pos EXCEPT !.quantity = pos.quantity + additional_quantity,
                        !.current_value = pos.current_value + d.amount]]

\* an opening branch that gives every new asset the yield rate 0.05
OpenPositionFixedYield(pf, ms, d) ==
    LET current_price == IF d.target_asset \in DOMAIN ms
                         THEN ms[d.target_asset]
                         ELSE Dec(1, 1, PriceScale)
        quantity == Quantity(d.amount, current_price)
    IN  AddPosition(pf, d.target_asset,
                    PositionNew(current_price, Dec(2, 100, PriceScale),
                                Dec(5, 100, PriceScale), quantity, current_price))

\* execute_routing, the branch of a target that is not held
OpenPosition(pf, ms, d) ==
    LET current_price == IF d.target_asset \in DOMAIN ms
                         THEN ms[d.target_asset]
                         ELSE Dec(1, 1, PriceScale)
        quantity == Quantity(d.amount, current_price)
    IN  AddPosition(pf, d.target_asset,
                    PositionNew(current_price, Dec(2, 100, PriceScale),
                                d.expected_yield, quantity, current_price))

\* a cash check against the portfolio's total value instead of its cash
InsufficientCashAgainstTotal(pf, d) == d.amount > pf.total_value

\* execute_routing's cash check: the decision is rejected
InsufficientCash(pf, d) == d.amount > pf.cash

\* the deduction of the execution cost that ends execute_routing
DeductCost(pf, d) == [pf EXCEPT !.cash = pf.cash - d.execution_cost]

\* Simulator::execute_routing: [ok, portfolio]
ExecuteRouting(pf, ms, d) ==
    IF InsufficientCash(pf, d)
    THEN [ok |-> FALSE, portfolio |-> pf]
    ELSE [ok |-> TRUE,
          portfolio |-> DeductCost(IF d.target_asset \in DOMAIN pf.positions
                                   THEN TopUpPosition(pf, d)
                                   ELSE OpenPosition(pf, ms, d), d)]

\* what one execute_routing call saw and did
ExecRecord(pf, d, r) ==
    [ decision    |-> d,
      held_before |-> d.target_asset \in DOMAIN pf.positions,
      cash_before |-> pf.cash,
      accepted    |-> r.ok,
      cash_after  |-> r.portfolio.cash,
      positions_before |-> pf.positions,
      positions_after  |-> r.portfolio.positions ]

\* a loop that skips a rejected decision and goes on with the next one
RECURSIVE SkipRejected(_, _, _, _)
SkipRejected(pf, ms, decisions, log) ==
    IF decisions = <<>> THEN [ok |-> TRUE, portfolio |-> pf, log |-> log]
    ELSE SkipRejected(ExecuteRouting(pf, ms, Head(decisions)).portfolio, ms,
                      Tail(decisions),
                      Append(log, ExecRecord(pf, Head(decisions),
                                             ExecuteRouting(pf, ms, Head(decisions)))))

\* the loop of step() over the decisions; it ends at the first error
\* (r is what execute_routing returned for the first of `decisions`)
RECURSIVE ExecuteDecisions(_, _, _, _), AfterRouting(_, _, _, _, _)
ExecuteDecisions(pf, ms, decisions, log) ==
    IF decisions = <<>> THEN [ok |-> TRUE, portfolio |-> pf, log |-> log]
    ELSE AfterRouting(pf, ms, decisions, log,
                      ExecuteRouting(pf, ms, Head(decisions)))

AfterRouting(pf, ms, decisions, log, r) ==
    IF r.ok
    THEN ExecuteDecisions(r.portfolio, ms, Tail(decisions),
                          Append(log, ExecRecord(pf, Head(decisions), r)))
    ELSE [ok |-> FALSE, portfolio |-> r.portfolio,
          log |-> Append(log, ExecRecord(pf, Head(decisions), r))]

\* the PortfolioSnapshot built by record_snapshot
Snapshot(pf) ==
    [ total_value     |-> pf.total_value,
      cash            |-> pf.cash,
      positions_value |-> PositionsValue(pf),
      positions_count |-> Cardinality(DOMAIN pf.positions) ]

\* a record_snapshot that puts the newest snapshot first
RecordSnapshotFirst(history, pf) == <<Snapshot(pf)>> \o history

\* Simulator::record_snapshot
RecordSnapshot(history, pf) == Append(history, Snapshot(pf))

\* step(), after the decisions ran: the bookkeeping of a successful step
StepBookkeeping(pf2, ms1, history, log) ==
    [ ret |-> "ok", portfolio |-> pf2, market_state |-> ms1,
      history |-> RecordSnapshot(history, pf2), log |-> log ]

\* a step() that records its snapshot without update_total_value before it
StepReturnStaleTotal(run, ms1, history) ==
    IF run.ok
    THEN StepBookkeeping(run.portfolio, ms1, history, run.log)
    ELSE [ ret |-> "insufficient_cash", portfolio |-> run.portfolio,
           market_state |-> ms1, history |-> history, log |-> run.log ]

\* step(), the `?` on execute_routing: the error leaves at once
StepReturn(run, ms1, history) ==
    IF run.ok
    THEN StepBookkeeping(UpdateTotalValue(run.portfolio), ms1, history, run.log)
    ELSE [ ret |-> "insufficient_cash", portfolio |-> run.portfolio,
           market_state |-> ms1, history |-> history, log |-> run.log ]

\* step(), from the evolved prices on: the strategy's decisions are executed
StepRouting(strat, pf1, ms1, history) ==
    StepReturn(ExecuteDecisions(pf1, ms1,
                                GenerateRoutingDecisions(strat, pf1, ms1), <<>>),
               ms1, history)

\* step(), after update_market_prices moved the positions to positions1
StepEvolved(strat, pf, ms, history, positions1) ==
    StepRouting(strat, [pf EXCEPT !.positions = positions1],
                EvolvedMarket(ms, positions1), history)

\* Simulator::step, whole: the fields and the return value afterwards
StepOutcome(strat, pf, ms, history, shock) ==
    StepEvolved(strat, pf, ms, history, EvolvedPositions(pf, shock))

\* finalize(), once total_value is recomputed and the baseline is read
ResultsFrom(initial_value, final_value, history) ==
    [ finalized         |-> TRUE,
      initial_value     |-> initial_value,
      final_value       |-> final_value,
      total_return      |-> final_value - initial_value,
      total_return_pct  |-> IF initial_value > 0
                            THEN 100 * MulDiv(final_value - initial_value,
                                              PriceScale, initial_value)
                            ELSE 0,
      portfolio_history |-> history ]

\* a finalize that takes the last snapshot as the baseline
FinalizeResultsLastBaseline(pf, history) ==
    ResultsFrom(IF history = <<>> THEN 0 ELSE history[Len(history)].total_value,
                UpdateTotalValue(pf).total_value, history)

\* Simulator::finalize: the SimulationResults
FinalizeResults(pf, history) ==
    ResultsFrom(IF history = <<>> THEN 0 ELSE history[1].total_value,
                UpdateTotalValue(pf).total_value, history)

McIdle == [pc |-> "idle"]

NoCall == [name |-> "new", calls |-> 0, symbol |-> "",
           before |-> [positions |-> << >>, cash |-> 0, total_value |-> 0]]

\* no Strategy obtained yet, no metric function called yet
NoStrategy == [op |-> "none"]
NoMetric == [fn |-> "none"]

\* Simulator::new(initial_capital, strategy)
Init ==
    \E capital \in InitialCapitals, strat \in StrategyNames :
        /\ strategy = strat
        /\ portfolio = PortfolioNew(Money(capital))
        /\ step_count = 0
        /\ portfolio_history = <<>>
        /\ market_state = EmptyMap
        /\ phase = "Running"
        /\ results = NoResults
        /\ step_result = "none"
        /\ exec_log = <<>>
        /\ last_op = NoCall
        /\ mc = McIdle
        /\ sel = NoStrategy
        /\ calc = NoMetric

\* a step() that counts only the calls that succeed
StepApplyCountingSuccess(out) ==
    /\ step_count' = IF out.ret = "ok" THEN step_count + 1 ELSE step_count
    /\ portfolio' = out.portfolio
    /\ market_state' = out.market_state
    /\ portfolio_history' = out.history
    /\ step_result' = out.ret
    /\ exec_log' = out.log

\* a step() that puts the portfolio and the market map back when it fails
StepApplyRollback(out) ==
    /\ step_count' = step_count + 1
    /\ portfolio' = IF out.ret = "ok" THEN out.portfolio ELSE portfolio
    /\ market_state' = IF out.ret = "ok" THEN out.market_state ELSE market_state
    /\ portfolio_history' = out.history
    /\ step_result' = out.ret
    /\ exec_log' = out.log

\* the fields and the return value a step() call leaves
StepApply(out) ==
    /\ step_count' = step_count + 1
    /\ portfolio' = out.portfolio
    /\ market_state' = out.market_state
    /\ portfolio_history' = out.history
    /\ step_result' = out.ret
    /\ exec_log' = out.log

\* Simulator::step(&mut self)
Step ==
    /\ phase = "Running"
    /\ step_count < MaxSteps
    /\ \E shock \in [DOMAIN portfolio.positions -> Shocks] :
        StepApply(StepOutcome(strategy, portfolio, market_state,
                              portfolio_history, shock))
    /\ UNCHANGED <<strategy, phase, results, last_op, mc, sel, calc>>

\* Simulator::finalize(self)
Finalize ==
    /\ phase = "Running"
    /\ phase' = "Finalized"
    /\ portfolio' = UpdateTotalValue(portfolio)
    /\ results' = FinalizeResults(portfolio, portfolio_history)
    /\ UNCHANGED <<strategy, step_count, portfolio_history, market_state,
                   step_result, exec_log, last_op, mc, sel, calc>>

Next == Step \/ Finalize

Spec == Init /\ [][Next]_vars

----------------------------------------------------------------------------
(* risk.rs and the metrics of Simulator::finalize (simulator.rs) *)

\* history.iter().map(|s| s.total_value.to_f64().unwrap_or(0.0))
HistoryValues(history) ==
    [i \in DOMAIN history |-> MoneyToF64(history[i].total_value)]

\* if value > peak { peak = value }
PeakAfter(peak, value) == IF FGt(value, peak) THEN value ELSE peak

\* let drawdown = (peak - value) / peak * 100.0
Drawdown(peak, value) == FMul(FDiv(FSub(peak, value), peak), FFromInt(100))

\* if drawdown > max_dd { max_dd = drawdown }
MaxDdAfter(max_dd, drawdown) == IF FGt(drawdown, max_dd) THEN drawdown ELSE max_dd

\* a loop body that keeps the first value as the peak and the last drawdown
\* as the result
DrawdownRoundLast(st, value) ==
    [ peak   |-> st.peak,
      max_dd |-> Drawdown(st.peak, value) ]

\* one round of the loop over the values
DrawdownRound(st, value) ==
    [ peak   |-> PeakAfter(st.peak, value),
      max_dd |-> MaxDdAfter(st.max_dd, Drawdown(PeakAfter(st.peak, value), value)) ]

\* the loop `for &value in &values`, from the i-th value on
RECURSIVE DrawdownLoop(_, _, _)
DrawdownLoop(values, i, st) ==
    IF i > Len(values) THEN st.max_dd
    ELSE CHOOSE r \in { DrawdownLoop(values, i + 1, next)
                        : next \in {DrawdownRound(st, values[i])} } : TRUE

\* peak = values[0], max_dd = 0.0 and the loop
DrawdownOf(values) ==
    DrawdownLoop(values, 1, [peak |-> values[1], max_dd |-> FZero])

\* RiskCalculator::max_drawdown
RiskMaxDrawdown(history) ==
    IF Len(history) < 2 THEN FZero ELSE DrawdownOf(HistoryValues(history))

\* Simulator::calculate_max_drawdown
CalculateMaxDrawdown(history) ==
    IF history = <<>> THEN FZero ELSE DrawdownOf(HistoryValues(history))

\* portfolio_history.windows(2).map(..): the step-to-step returns
StepReturns(values) ==
    [i \in 1..(Len(values) - 1) |->
        IF FGt(values[i], FZero)
        THEN FDiv(FSub(values[i + 1], values[i]), values[i])
        ELSE FZero]

\* r.powi(2)
FSquare(x) == FMul(x, x)

\* the variance of the returns around their mean
VarianceAround(returns, mean) ==
    FDiv(FSum([i \in DOMAIN returns |-> FSquare(FSub(returns[i], mean))]),
         FFromInt(Len(returns)))

\* if std_dev > 0.0 { excess / std_dev * (252.0_f64).sqrt() } else { 0.0 }
Annualized(excess, std_dev) ==
    IF FGt(std_dev, FZero)
    THEN FMul(FDiv(excess, std_dev), FSqrt(FFromInt(252)))
    ELSE FZero

\* the ratio once the mean is known
SharpeWithMean(returns, mean, risk_free_rate) ==
    Annualized(FSub(mean, risk_free_rate), FSqrt(VarianceAround(returns, mean)))

\* RiskCalculator::sharpe_ratio
SharpeRatio(returns, risk_free_rate) ==
    IF returns = <<>> THEN FZero
    ELSE CHOOSE r \in { SharpeWithMean(returns, mean, risk_free_rate)
                        : mean \in {FDiv(FSum(returns), FFromInt(Len(returns)))} }
            : TRUE

\* the ratio of the simulator once the mean is known: no risk-free rate
SimSharpeWithMean(returns, mean) ==
    Annualized(mean, FSqrt(VarianceAround(returns, mean)))

\* Simulator::calculate_sharpe_ratio
CalculateSharpeRatio(history) ==
    IF Len(history) < 2 THEN FZero
    ELSE CHOOSE r \in { SimSharpeWithMean(returns,
                                FDiv(FSum(returns), FFromInt(Len(returns))))
                        : returns \in {StepReturns(HistoryValues(history))} }
            : TRUE

\* ((1.0 - confidence) * sorted_returns.len() as f64) as usize
VarIndex(confidence, n) == FToUsize(FMul(FSub(FOne, confidence), FFromInt(n)))

\* sorted_returns.get(index).copied().unwrap_or(0.0)
ReturnAt(sorted, index) == IF index < Len(sorted) THEN sorted[index + 1] ELSE FZero

\* calculate_var from the sorted returns on:
\* current_value * Decimal::from_f64_retain(var_return.abs()).unwrap()
VarFromReturns(sorted, current_value, confidence) ==
    IF sorted = <<>> THEN 0
    ELSE MoneyTimesF64(current_value,
                FAbs(ReturnAt(sorted, VarIndex(confidence, Len(sorted)))))

\* Simulator::calculate_var
CalculateVar(history, current_value, confidence) ==
    IF history = <<>> THEN 0
    ELSE VarFromReturns(FSortAscending(StepReturns(HistoryValues(history))),
                        current_value, confidence)

\* calculate_cvar from the tail on:
\* current_value * Decimal::from_f64_retain(avg_tail_loss.abs()).unwrap()
CvarFromTail(tail_returns, current_value) ==
    IF tail_returns = <<>> THEN 0
    ELSE MoneyTimesF64(current_value,
                FAbs(FDiv(FSum(tail_returns), FFromInt(Len(tail_returns)))))

\* calculate_cvar from the sorted returns on: sorted_returns[..var_index]
CvarFromReturns(sorted, current_value, confidence) ==
    IF sorted = <<>> THEN 0
    ELSE CvarFromTail(SubSeq(sorted, 1, VarIndex(confidence, Len(sorted))),
                      current_value)

\* Simulator::calculate_cvar
CalculateCvar(history, current_value, confidence) ==
    IF history = <<>> THEN 0
    ELSE CvarFromReturns(FSortAscending(StepReturns(HistoryValues(history))),
                         current_value, confidence)

----------------------------------------------------------------------------
(* A Portfolio driven through its public methods and fields (types.rs) *)

\* the symbols, quantities and prices handed to the Portfolio's methods
PSymbols == {"USDC", "ETH"}
PQuantities == {Money(10), Money(25) + (MoneyScale \div 2)}
PPrices == {Dec(9, 10, PriceScale), Dec(5, 2, PriceScale)}
PCash == {Money(0), Money(1000)}

\* the simulator's fields at rest while a Portfolio is driven directly
SimulatorAtRest ==
    /\ strategy = "conservative"
    /\ step_count = 0
    /\ portfolio_history = <<>>
    /\ market_state = EmptyMap
    /\ phase = "Running"
    /\ results = NoResults
    /\ step_result = "none"
    /\ exec_log = <<>>

simRest == <<strategy, step_count, portfolio_history, market_state, phase,
             results, step_result, exec_log>>

\* the call just made: its name, its symbol argument if it has one, and the
\* portfolio it was made on
Called(name) == [name |-> name, calls |-> last_op.calls + 1, symbol |-> "",
                 before |-> portfolio]

CalledOn(name, symbol) == [Called(name) EXCEPT !.symbol = symbol]

\* Portfolio::new(initial_cash)
PInit ==
    /\ SimulatorAtRest
    /\ mc = McIdle
    /\ sel = NoStrategy
    /\ calc = NoMetric
    /\ last_op = NoCall
    /\ \E cash \in PCash : portfolio = PortfolioNew(cash)

\* portfolio.add_position(Position::new(asset, quantity, price))
PAddPosition ==
    /\ last_op.calls < MaxCalls
    /\ \E s \in PSymbols, q \in PQuantities, price \in PPrices :
        /\ portfolio' = AddPosition(portfolio, s,
                             PositionNew(price, Dec(2, 100, PriceScale),
                                         Dec(5, 100, PriceScale), q, price))
        /\ last_op' = CalledOn("add_position", s)
    /\ UNCHANGED <<simRest, mc, sel, calc>>

\* portfolio.remove_position(symbol), of a held symbol or not
PRemovePosition ==
    /\ last_op.calls < MaxCalls
    /\ \E s \in PSymbols :
        /\ portfolio' = RemovePosition(portfolio, s)
        /\ last_op' = CalledOn(IF s \in DOMAIN portfolio.positions
                               THEN "remove_position"
                               ELSE "remove_position_none", s)
    /\ UNCHANGED <<simRest, mc, sel, calc>>

\* portfolio.update_total_value()
PUpdateTotalValue ==
    /\ last_op.calls < MaxCalls
    /\ portfolio' = UpdateTotalValue(portfolio)
    /\ last_op' = Called("update_total_value")
    /\ UNCHANGED <<simRest, mc, sel, calc>>

\* portfolio.update_prices(&price_updates)
PUpdatePrices ==
    /\ last_op.calls < MaxCalls
    /\ \E syms \in SUBSET PSymbols :
        \E price_updates \in [syms -> PPrices] :
            portfolio' = UpdatePrices(portfolio, price_updates)
    /\ last_op' = Called("update_prices")
    /\ UNCHANGED <<simRest, mc, sel, calc>>

\* position.update_price(new_price) on a held position, reached through the
\* public positions map as update_market_prices does
PPositionUpdatePrice ==
    /\ last_op.calls < MaxCalls
    /\ \E s \in DOMAIN portfolio.positions, price \in PPrices :
        portfolio' = [portfolio EXCEPT !.positions[s] =
                         PositionUpdatePrice(portfolio.positions[s], price)]
    /\ last_op' = Called("position_update_price")
    /\ UNCHANGED <<simRest, mc, sel, calc>>

PNext ==
    \/ PAddPosition
    \/ PRemovePosition
    \/ PUpdateTotalValue
    \/ PUpdatePrices
    \/ PPositionUpdatePrice

PortfolioSpec == PInit /\ [][PNext]_vars

----------------------------------------------------------------------------
(* A Strategy obtained by name or by constructor and then called (strategy.rs) *)

\* number of generate_routing_decisions calls explored on one Strategy
MaxGenerate == 2

\* the name with its letters in upper case where `upper` says so
Cased(name, upper) ==
    [i \in DOMAIN name |->
        IF upper[i] /\ \E k \in DOMAIN LowerCase : LowerCase[k] = name[i]
        THEN UpperCase[CHOOSE k \in DOMAIN LowerCase : LowerCase[k] = name[i]]
        ELSE name[i]]

\* the names from_name accepts, in lower case
AcceptedNames == {NameConservative, NameBalanced, NameAggressive,
                  NameYieldMaximizer, NameYield, NameRiskParity, NameRisk}

\* the names handed to from_name: every accepted name in lower case, in upper
\* case, capitalized and with every second letter in upper case, and names
\* that are none of them
SNames ==
    UNION { { name,
              Cased(name, [i \in DOMAIN name |-> TRUE]),
              Cased(name, [i \in DOMAIN name |-> i = 1]),
              Cased(name, [i \in DOMAIN name |-> i % 2 = 0]) }
            : name \in AcceptedNames }
    \cup { <<>>,
           NameYield \o <<"s">>,
           NameRisk \o <<"_">>,
           NameRisk \o <<"-">> \o <<"p", "a", "r", "i", "t", "y">>,
           NameRiskParity \o <<" ">>,
           <<" ">> \o NameBalanced,
           SubSeq(NameBalanced, 1, 7),
           SubSeq(NameConservative, 1, 4),
           NameYield \o <<"m", "a", "x", "i", "m", "i", "z", "e", "r">>,
           <<"R", "I", "S", "K", "Y">>,
           <<"d", "e", "f", "a", "u", "l", "t">> }

\* a portfolio holding `held` at `price`, `quantity` of each
SPortfolio(cash, total_value, held, price, quantity) ==
    [ positions   |-> [s \in held |->
                        PositionNew(price, Dec(2, 100, PriceScale),
                                    Dec(5, 100, PriceScale), quantity, price)],
      cash        |-> cash,
      total_value |-> total_value ]

\* the portfolios handed to generate_routing_decisions
SPortfolios ==
    { SPortfolio(Money(1000000), Money(1000000), {}, PriceScale, 0),
      SPortfolio(Money(2500), Money(2500), {}, PriceScale, 0),
      SPortfolio(Money(500), Money(500), {}, PriceScale, 0),
      SPortfolio(Money(4000), Money(6000), {"USDC", "SOL"}, PriceScale, Money(1000)),
      SPortfolio(Money(4000), Money(6000), {"USDC", "SOL"}, 2 * PriceScale, Money(500)),
      SPortfolio(Money(4000), Money(50000), {"USDC", "SOL"}, PriceScale, Money(23000)),
      SPortfolio(Money(3334) - 1, Money(3334) - 1, {"MAX_YIELD"}, PriceScale, 0) }

\* the market maps handed to generate_routing_decisions
SMarkets == { EmptyMap, [s \in {"ETH", "USDC"} |-> 2 * PriceScale] }

\* nothing obtained yet
SInit ==
    /\ SimulatorAtRest
    /\ portfolio = PortfolioNew(0)
    /\ last_op = NoCall
    /\ mc = McIdle
    /\ calc = NoMetric
    /\ sel = NoStrategy

\* Strategy::from_name(name)
SFromName ==
    /\ sel = NoStrategy
    /\ \E name \in SNames :
        sel' = [op |-> "from_name", name |-> name, ret |-> FromName(name),
                calls |-> <<>>]
    /\ UNCHANGED <<simRest, portfolio, last_op, mc, calc>>

\* Strategy::conservative(), ..., Strategy::risk_parity()
SConstructor ==
    /\ sel = NoStrategy
    /\ \E strat \in {StrategyConservative, StrategyBalanced, StrategyAggressive,
                     StrategyYieldMaximizer, StrategyRiskParity} :
        sel' = [op |-> "constructor", name |-> StrategyName(strat),
                ret |-> StrategyOk(strat), calls |-> <<>>]
    /\ UNCHANGED <<simRest, portfolio, last_op, mc, calc>>

\* strategy.generate_routing_decisions(&portfolio, &market_state)
SGenerate ==
    /\ sel /= NoStrategy
    /\ sel.ret.ok
    /\ step_count = 0
    /\ Len(sel.calls) < MaxGenerate
    /\ \E pf \in SPortfolios, ms \in SMarkets :
        sel' = [sel EXCEPT !.calls = Append(@,
                    [ portfolio    |-> pf,
                      market_state |-> ms,
                      decisions    |-> GenerateRoutingDecisions(sel.ret.strategy,
                                                                pf, ms) ])]
    /\ UNCHANGED <<simRest, portfolio, last_op, mc, calc>>

\* Simulator::new(initial_capital, strategy) and its first step(), with the
\* Strategy as it was obtained; it moves into the Simulator and takes no more
\* calls from outside
SSimulate ==
    /\ sel /= NoStrategy
    /\ sel.ret.ok
    /\ sel.calls = <<>>
    /\ step_count = 0
    /\ \E capital \in InitialCapitals :
        StepApply(StepOutcome(sel.ret.strategy, PortfolioNew(Money(capital)),
                              EmptyMap, <<>>, EmptyMap))
    /\ strategy' = sel.ret.strategy
    /\ UNCHANGED <<phase, results, last_op, mc, sel, calc>>

SNext == SFromName \/ SConstructor \/ SGenerate \/ SSimulate

StrategySpec == SInit /\ [][SNext]_vars

----------------------------------------------------------------------------
(* monte_carlo.rs: the Monte Carlo engine *)

\* let batch_size = 100
BatchSize == 100
\* for _ in 0..100 { simulator.step()?; }
TrialSteps == 100
\* let initial_capital = 1_000_000.0
TrialCapital == 1000000

\* the iterations handed to MonteCarloEngine::new
McIterations == {0, 1, 2, BatchSize, BatchSize + 1, BatchSize + 50}
\* the confidence levels handed to run_stress_test
McConfidences == {Dec(0, 1, PriceScale), Dec(1, 2, PriceScale),
                  Dec(9, 10, PriceScale), Dec(95, 100, PriceScale),
                  Dec(1, 1, PriceScale)}

\* the runs run_single_simulation can take from a simulator that has made
\* `done` successful steps: the first failing step() ends the run with its
\* error, the last successful one is followed by finalize()
RECURSIVE TrialRuns(_, _, _, _), TrialAfterStep(_, _)
TrialRuns(pf, ms, history, done) ==
    IF done = TrialSteps
    THEN { [ ret         |-> "ok",
             steps_ok    |-> done,
             finalized   |-> TRUE,
             final_value |-> FinalizeResults(pf, history).final_value ] }
    ELSE UNION { TrialAfterStep(StepOutcome("balanced", pf, ms, history, shock), done)
                 : shock \in [DOMAIN pf.positions -> Shocks] }

TrialAfterStep(out, done) ==
    IF out.ret = "ok"
    THEN TrialRuns(out.portfolio, out.market_state, out.history, done + 1)
    ELSE { [ ret         |-> out.ret,
             steps_ok    |-> done,
             finalized   |-> FALSE,
             final_value |-> 0 ] }

\* MonteCarloEngine::run_single_simulation: the Result<f64> values it can return
RunSingleSimulation ==
    TrialRuns(PortfolioNew(Money(TrialCapital)), EmptyMap, <<>>, 0)

\* result.unwrap_or(0.0) in the batch loop
TrialSample(run) == IF run.ret = "ok" THEN run.final_value ELSE 0

\* sorted.sort_by(partial_cmp), a stable ascending sort: the element at
\* index k moves behind the smaller ones and the equal ones before it
SortAscending(values) ==
    LET n    == Len(values)
        rank == [k \in 1..n |->
                    Cardinality({j \in 1..n :
                        \/ values[j] < values[k]
                        \/ (values[j] = values[k] /\ j <= k)})]
    IN  [i \in 1..n |-> values[CHOOSE k \in 1..n : rank[k] = i]]

\* values.iter().sum()
RECURSIVE SeqSum(_)
SeqSum(values) ==
    IF Len(values) = 0 THEN 0
    ELSE IF Len(values) = 1 THEN values[1]
    ELSE LET h == Len(values) \div 2
         IN  SeqSum(SubSeq(values, 1, h)) + SeqSum(SubSeq(values, h + 1, Len(values)))

\* a tail index that counts one sample more
TailIndexOneMore(confidence, n) ==
    VarIndex(FLit(confidence, PriceScale), n) + 1

\* ((1.0 - confidence) * n as f64) as usize, on the f64 nearest to the
\* confidence level
TailIndex(confidence, n) == VarIndex(FLit(confidence, PriceScale), n)

\* sorted[..var_index] panics when var_index is past the end of the samples
McSlicePanics(values, confidence) ==
    /\ values /= <<>>
    /\ TailIndex(confidence, Len(values)) > Len(values)

\* MonteCarloEngine::calculate_expected_value
McExpectedValue(values) ==
    IF values = <<>> THEN 0 ELSE MulDiv(SeqSum(values), 1, Len(values))

\* MonteCarloEngine::calculate_var
McVar(values, confidence) ==
    IF values = <<>> THEN 0
    ELSE LET sorted == SortAscending(values)
             index  == TailIndex(confidence, Len(sorted))
         IN  IF index < Len(sorted) THEN sorted[index + 1] ELSE 0

\* MonteCarloEngine::calculate_cvar
McCvar(values, confidence) ==
    IF values = <<>> THEN 0
    ELSE LET sorted      == SortAscending(values)
             var_index   == TailIndex(confidence, Len(sorted))
             tail_values == SubSeq(sorted, 1, var_index)
         IN  IF tail_values = <<>> THEN 0
             ELSE MulDiv(SeqSum(tail_values), 1, Len(tail_values))

\* MonteCarloEngine::calculate_max_drawdown_distribution, in percent
McMaxDrawdown(values) ==
    IF values = <<>> THEN 0
    ELSE LET mean    == MulDiv(SeqSum(values), 1, Len(values))
             initial == Money(TrialCapital)
             pct     == 100 * MulDiv(initial - mean, PriceScale, initial)
         IN  IF pct > 0 THEN pct ELSE 0

\* a percentile index rounded up to the next rank
PercentileIndexCeil(p, n) == ((p * n) + 99) \div 100

\* (p * sorted.len() as f64) as usize, p in hundredths
PercentileIndex(p, n) == FToUsize(FMul(FLit(p, 100), FFromInt(n)))

\* sorted[index.min(sorted.len() - 1)]
McPercentileAt(sorted, index) ==
    sorted[(IF index < Len(sorted) - 1 THEN index ELSE Len(sorted) - 1) + 1]

\* MonteCarloEngine::percentile, p in hundredths
McPercentile(sorted, p) ==
    IF sorted = <<>> THEN 0
    ELSE McPercentileAt(sorted, PercentileIndex(p, Len(sorted)))

\* the MonteCarloResults built at the end of run_stress_test
McResults(iterations, confidence, final_values) ==
    LET sorted == SortAscending(final_values)
    IN  [ iterations       |-> iterations,
          expected_value   |-> McExpectedValue(final_values),
          value_at_risk    |-> McVar(final_values, confidence),
          conditional_var  |-> McCvar(final_values, confidence),
          max_drawdown_pct |-> McMaxDrawdown(final_values),
          confidence_level |-> confidence,
          distribution     |-> final_values,
          percentiles      |-> [p \in {5, 25, 50, 75, 95} |-> McPercentile(sorted, p)] ]

\* let batches = (self.iterations + batch_size - 1) / batch_size
McBatches == (mc.iterations + BatchSize - 1) \div BatchSize

\* the end of a batch that is always full
McBatchEndFullBatch == (mc.batch * BatchSize) + BatchSize

\* let end = (start + batch_size).min(self.iterations)
McBatchEnd ==
    LET start == mc.batch * BatchSize
    IN  IF start + BatchSize < mc.iterations THEN start + BatchSize ELSE mc.iterations

\* MonteCarloEngine::new(iterations, scenarios) and the call of
\* run_stress_test(confidence_level)
MCInit ==
    /\ SimulatorAtRest
    /\ portfolio = PortfolioNew(0)
    /\ last_op = NoCall
    /\ sel = NoStrategy
    /\ calc = NoMetric
    /\ \E iterations \in McIterations, confidence \in McConfidences :
        mc = [ pc               |-> "running",
               iterations       |-> iterations,
               confidence_level |-> confidence,
               batch            |-> 0,
               next_trial       |-> 0,
               batch_results    |-> <<>>,
               final_values     |-> <<>>,
               trials           |-> <<>>,
               ret              |-> "none",
               results          |-> NoResults ]

\* one closure call of the batch's map: a whole run_single_simulation(i)
MCRunTrial ==
    /\ mc.pc = "running"
    /\ mc.batch < McBatches
    /\ mc.next_trial < McBatchEnd
    /\ \E run \in RunSingleSimulation :
        mc' = [mc EXCEPT
                 !.batch_results = Append(@, TrialSample(run)),
                 !.trials = Append(@, [ index  |-> mc.next_trial,
                                        run    |-> run,
                                        sample |-> TrialSample(run) ]),
                 !.next_trial = @ + 1]
    /\ UNCHANGED <<simRest, portfolio, last_op, sel, calc>>

\* final_values.extend(batch_results) and the next batch
MCEndBatch ==
    /\ mc.pc = "running"
    /\ mc.batch < McBatches
    /\ mc.next_trial = McBatchEnd
    /\ mc' = [mc EXCEPT !.final_values = @ \o mc.batch_results,
                        !.batch_results = <<>>,
                        !.batch = @ + 1]
    /\ UNCHANGED <<simRest, portfolio, last_op, sel, calc>>

\* the statistics and the Ok(MonteCarloResults) that end run_stress_test
MCComplete ==
    /\ mc.pc = "running"
    /\ mc.batch = McBatches
    /\ mc' = IF McSlicePanics(mc.final_values, mc.confidence_level)
             THEN [mc EXCEPT !.pc = "done", !.ret = "panic"]
             ELSE [mc EXCEPT
                     !.pc = "done",
                     !.ret = "ok",
                     !.results = McResults(mc.iterations, mc.confidence_level,
                                           mc.final_values)]
    /\ UNCHANGED <<simRest, portfolio, last_op, sel, calc>>

MCNext == MCRunTrial \/ MCEndBatch \/ MCComplete

MCSpec == MCInit /\ [][MCNext]_vars

----------------------------------------------------------------------------
(* The risk metrics called on their inputs (risk.rs, simulator.rs, *)
(* monte_carlo.rs) *)

\* longest history handed to RiskCalculator::max_drawdown
MaxHistory == 3
\* longest return series handed to RiskCalculator::sharpe_ratio
MaxReturns == 3
\* steps of a simulation before its finalize()
MaxSimSteps == 2
\* largest Monte Carlo sample
MaxSamples == 21

\* the sequences over `values` of length up to n
RECURSIVE SeqsUpTo(_, _)
SeqsUpTo(values, n) ==
    IF n = 0 THEN {<<>>}
    ELSE SeqsUpTo(values, n - 1)
            \cup { Append(q, v) : q \in { r \in SeqsUpTo(values, n - 1) : Len(r) = n - 1 },
                                  v \in values }

\* total values of the snapshots handed to RiskCalculator::max_drawdown
MTotals == {0, Money(100), Money(110), Money(121), -Money(50)}

\* a snapshot of a portfolio worth `total`, all of it cash
MSnapshot(total) == Snapshot(PortfolioNew(total))

\* returns handed to RiskCalculator::sharpe_ratio, and risk-free rates, in
\* hundredths
MReturns == {-5, 0, 1, 10}
MRates == {0, 2}

\* the f64 values of a series given in hundredths
Hundredths(series) == [i \in DOMAIN series |-> FLit(series[i], 100)]

\* Monte Carlo samples: n final values in money, every stride-th of a cycle
\* of n + 1 values, which are all different for stride 1 and for stride n
MSample(n, stride) == [i \in 1..n |-> Money((i * stride) % (n + 1))]

MSamples == { MSample(n, stride) : n \in 0..MaxSamples, stride \in {1, 2} }
                \cup { MSample(n, n) : n \in 0..MaxSamples }

\* the simulator after each of up to `left` more successful steps: its
\* portfolio and history
RECURSIVE SimRuns(_, _, _, _, _), SimRunsAfter(_, _, _)
SimRuns(strat, pf, ms, history, left) ==
    {[portfolio |-> pf, history |-> history]}
        \cup IF left = 0 THEN {}
             ELSE UNION { SimRunsAfter(strat,
                                StepOutcome(strat, pf, ms, history, shock), left - 1)
                          : shock \in [DOMAIN pf.positions -> Shocks] }

SimRunsAfter(strat, out, left) ==
    IF out.ret = "ok"
    THEN SimRuns(strat, out.portfolio, out.market_state, out.history, left)
    ELSE {}

\* steps of a simulation long enough for a tail of returns below the VaR index
LongRunSteps == 21

\* the simulator after `left` more steps that all draw `draw` for every
\* position, or nothing if one of the steps fails
RECURSIVE SteadyRuns(_, _, _, _, _, _), SteadyRunsAfter(_, _, _, _)
SteadyRuns(strat, pf, ms, history, left, draw) ==
    IF left = 0 THEN {[portfolio |-> pf, history |-> history]}
    ELSE SteadyRunsAfter(strat,
                StepOutcome(strat, pf, ms, history,
                            [s \in DOMAIN pf.positions |-> draw]),
                left - 1, draw)

SteadyRunsAfter(strat, out, left, draw) ==
    IF out.ret = "ok"
    THEN SteadyRuns(strat, out.portfolio, out.market_state, out.history, left, draw)
    ELSE {}

\* the f64 metrics of finalize, its value_at_risk and conditional_var, and
\* the current value they are taken of
FinalizeMetrics(run) ==
    [ fn               |-> "finalize",
      history          |-> run.history,
      current_value    |-> UpdateTotalValue(run.portfolio).total_value,
      sharpe_ratio     |-> CalculateSharpeRatio(run.history),
      max_drawdown_pct |-> CalculateMaxDrawdown(run.history),
      value_at_risk    |->
          CalculateVar(run.history,
                       UpdateTotalValue(run.portfolio).total_value,
                       FLit(95, 100)),
      conditional_var  |->
          CalculateCvar(run.history,
                        UpdateTotalValue(run.portfolio).total_value,
                        FLit(95, 100)) ]

\* no metric called yet
MInit ==
    /\ SimulatorAtRest
    /\ portfolio = PortfolioNew(0)
    /\ last_op = NoCall
    /\ mc = McIdle
    /\ sel = NoStrategy
    /\ calc = NoMetric

\* RiskCalculator::max_drawdown(&history)
MMaxDrawdown ==
    /\ calc = NoMetric
    /\ \E totals \in SeqsUpTo(MTotals, MaxHistory) :
        calc' = [ fn      |-> "max_drawdown",
                  history |-> [i \in DOMAIN totals |-> MSnapshot(totals[i])],
                  ret     |-> RiskMaxDrawdown(
                                [i \in DOMAIN totals |-> MSnapshot(totals[i])]) ]
    /\ UNCHANGED <<simRest, portfolio, last_op, mc, sel>>

\* RiskCalculator::sharpe_ratio(&returns, risk_free_rate)
MSharpeRatio ==
    /\ calc = NoMetric
    /\ \E returns \in SeqsUpTo(MReturns, MaxReturns), rate \in MRates :
        calc' = [ fn             |-> "sharpe_ratio",
                  returns        |-> returns,
                  risk_free_rate |-> rate,
                  ret            |-> SharpeRatio(Hundredths(returns),
                                                 FLit(rate, 100)) ]
    /\ UNCHANGED <<simRest, portfolio, last_op, mc, sel>>

\* Simulator::new, up to MaxSimSteps successful steps and finalize()
MFinalize ==
    /\ calc = NoMetric
    /\ \E capital \in InitialCapitals, strat \in StrategyNames :
        \E run \in SimRuns(strat, PortfolioNew(Money(capital)), EmptyMap, <<>>,
                           MaxSimSteps) :
            calc' = FinalizeMetrics(run)
    /\ UNCHANGED <<simRest, portfolio, last_op, mc, sel>>

\* the capitals of the long runs
LongRunCapitals == {4000}

\* Simulator::new, LongRunSteps successful steps and finalize()
MFinalizeLong ==
    /\ calc = NoMetric
    /\ \E capital \in LongRunCapitals, strat \in StrategyNames, draw \in Shocks :
        \E run \in SteadyRuns(strat, PortfolioNew(Money(capital)), EmptyMap, <<>>,
                              LongRunSteps, draw) :
            calc' = FinalizeMetrics(run)
    /\ UNCHANGED <<simRest, portfolio, last_op, mc, sel>>

\* the statistics run_stress_test takes of its final values
MStatistics ==
    /\ calc = NoMetric
    /\ \E samples \in MSamples,
          confidence \in McConfidences :
        calc' = [ fn      |-> "statistics",
                  samples |-> samples,
                  ret     |-> McResults(Len(samples), confidence, samples) ]
    /\ UNCHANGED <<simRest, portfolio, last_op, mc, sel>>

MNext == MMaxDrawdown \/ MSharpeRatio \/ MFinalize \/ MFinalizeLong \/ MStatistics

MetricsSpec == MInit /\ [][MNext]_vars

----------------------------------------------------------------------------
(* Properties of the Simulator (Spec) *)

simVars == <<strategy, portfolio, step_count, portfolio_history, market_state,
             phase, results, step_result, exec_log>>

\* the transition is a step() call
IsStepCall == phase = "Running" /\ phase' = "Running" /\ simVars' /= simVars

\* the transition is the finalize() call
IsFinalizeCall == phase = "Running" /\ phase' = "Finalized"

\* C1: every decision that execute_routing accepts, whether it opens a
\* position or tops one up, leaves cash = cash before - amount - execution_cost
C1_CashAfterExecution ==
    \A k \in DOMAIN exec_log :
        exec_log[k].accepted =>
            exec_log[k].cash_after =
                exec_log[k].cash_before - exec_log[k].decision.amount
                    - exec_log[k].decision.execution_cost

\* C2: with a non-negative initial capital and any built-in strategy, cash is
\* never negative, neither between step() calls nor after any decision of a step
C2_CashNeverNegative ==
    /\ portfolio.cash >= 0
    /\ \A k \in DOMAIN exec_log : exec_log[k].cash_after >= 0

\* the balanced step from 1,000,000: the fourth tranche and its fee leave
\* less cash than one tranche
C2_Witness ==
    /\ step_count >= 1
    /\ \E k \in DOMAIN exec_log :
        /\ exec_log[k].accepted
        /\ exec_log[k].cash_after < exec_log[k].decision.amount
    /\ portfolio.cash > 0

\* C4: every decision a strategy generates fits the cash left when it is
\* executed, so step() never returns the insufficient-cash error
C4_DecisionsFitCash ==
    /\ step_result /= "insufficient_cash"
    /\ \A k \in DOMAIN exec_log :
        exec_log[k].decision.amount <= exec_log[k].cash_before

\* C6: a decision is rejected exactly when its amount exceeds the cash; the
\* rejection is the last thing the step does (cash and positions stay as the
\* rejected call found them), step() returns the error and appends no snapshot
C6_Transition ==
    IsStepCall =>
        /\ \A k \in DOMAIN exec_log' :
            exec_log'[k].accepted <=>
                ~(exec_log'[k].decision.amount > exec_log'[k].cash_before)
        /\ (step_result' = "insufficient_cash") <=>
                (\E k \in DOMAIN exec_log' : ~exec_log'[k].accepted)
        /\ \A k \in DOMAIN exec_log' :
            ~exec_log'[k].accepted =>
                /\ k = Len(exec_log')
                /\ exec_log'[k].cash_after = exec_log'[k].cash_before
                /\ portfolio'.cash = exec_log'[k].cash_before
                /\ exec_log'[k].decision.target_asset \notin DOMAIN portfolio'.positions
        /\ step_result' = "insufficient_cash" =>
                portfolio_history' = portfolio_history

C6_RejectionAbortsStep == [][C6_Transition]_vars

C6_Witness ==
    /\ step_result = "insufficient_cash"
    /\ Len(exec_log) = 5
    /\ exec_log[4].accepted
    /\ ~exec_log[5].accepted
    /\ portfolio_history = <<>>

\* C8: step_count starts at 0, grows by exactly one with every step() call,
\* failing or not, and never shrinks; once finalize() has consumed the
\* Simulator nothing changes any more: no step() and no second finalize()
C8_Transition ==
    /\ step_count' >= step_count
    /\ IsStepCall => step_count' = step_count + 1
    /\ IsFinalizeCall => step_count' = step_count
    /\ phase = "Finalized" => simVars' = simVars

C8_StepCounter == (step_count = 0 /\ phase = "Running") /\ [][C8_Transition]_vars

C8_Witness ==
    /\ phase = "Finalized"
    /\ step_count = 2
    /\ step_result = "ok"
    /\ Len(portfolio_history) = 1

\* C9: a successful step() appends exactly one snapshot behind the ones
\* recorded before, which stay as they are; a failing step() and finalize()
\* leave the history alone, and finalize() returns it as it is
C9_Transition ==
    /\ (IsStepCall /\ step_result' = "ok") =>
            /\ Len(portfolio_history') = Len(portfolio_history) + 1
            /\ \A i \in DOMAIN portfolio_history :
                    portfolio_history'[i] = portfolio_history[i]
    /\ (IsStepCall /\ step_result' /= "ok") =>
            portfolio_history' = portfolio_history
    /\ IsFinalizeCall =>
            /\ portfolio_history' = portfolio_history
            /\ results'.portfolio_history = portfolio_history
    /\ phase = "Finalized" => results' = results

C9_HistoryAppendOnly == [][C9_Transition]_vars

C9_Witness ==
    /\ phase = "Finalized"
    /\ Len(results.portfolio_history) = 3
    /\ results.portfolio_history[1] /= results.portfolio_history[2]
    /\ results.portfolio_history[2] /= results.portfolio_history[3]

\* C10: finalize() reports the first snapshot's total_value as initial_value
\* (0 with an empty history), cash plus the position values as final_value and
\* their difference as total_return; with an empty history total_return_pct is 0
C10_FinalizeBaseline ==
    results.finalized =>
        /\ results.initial_value =
                IF portfolio_history = <<>> THEN 0
                ELSE portfolio_history[1].total_value
        /\ results.final_value = portfolio.cash + PositionsValue(portfolio)
        /\ results.total_return = results.final_value - results.initial_value
        /\ portfolio_history = <<>> =>
                /\ results.initial_value = 0
                /\ results.total_return_pct = 0

\* the conservative run from 1,000,000: the baseline is the first snapshot's
\* 999,700, not the capital
C10_Witness ==
    /\ results.finalized
    /\ strategy = "conservative"
    /\ Len(portfolio_history) >= 2
    /\ results.initial_value = Money(1000000) - Money(300)
    /\ results.total_return > 0

\* C20: in every state reached through Position::new, update_price and
\* step() (price evolution, opening a position, topping one up) each position
\* has current_value = quantity x current_price
C20_ValueIsQuantityTimesPrice ==
    \A s \in DOMAIN portfolio.positions :
        portfolio.positions[s].current_value
            = Value(portfolio.positions[s].quantity,
                    portfolio.positions[s].current_price)

\* the positions other than `target` are the same before and after
OthersUntouched(before, after, target) ==
    \A u \in (DOMAIN before) \ {target} : u \in DOMAIN after /\ after[u] = before[u]

\* the price execute_routing finds for the target: the market map's, or 1.0
LookedUpPrice(target) ==
    IF target \in DOMAIN market_state THEN market_state[target]
    ELSE Dec(1, 1, PriceScale)

\* a top-up: amount / current_price more quantity, amount more value, no new
\* position
IsTopUp(r) ==
    /\ DOMAIN r.positions_after = DOMAIN r.positions_before
    /\ r.positions_after[r.decision.target_asset] =
        [r.positions_before[r.decision.target_asset] EXCEPT
            !.quantity = @ + Quantity(r.decision.amount,
                    r.positions_before[r.decision.target_asset].current_price),
            !.current_value = @ + r.decision.amount]
    /\ OthersUntouched(r.positions_before, r.positions_after,
                       r.decision.target_asset)

\* an opening: one new position at the looked-up price, volatility 0.02,
\* the decision's expected yield, quantity amount / price
IsOpening(r) ==
    /\ DOMAIN r.positions_after
            = (DOMAIN r.positions_before) \cup {r.decision.target_asset}
    /\ r.positions_after[r.decision.target_asset].current_price
            = LookedUpPrice(r.decision.target_asset)
    /\ r.positions_after[r.decision.target_asset].volatility
            = Dec(2, 100, PriceScale)
    /\ r.positions_after[r.decision.target_asset].yield_rate
            = r.decision.expected_yield
    /\ r.positions_after[r.decision.target_asset].quantity
            = Quantity(r.decision.amount, LookedUpPrice(r.decision.target_asset))
    /\ OthersUntouched(r.positions_before, r.positions_after,
                       r.decision.target_asset)

\* C23: an accepted decision on a held target adds amount / current_price to
\* the position's quantity and amount to its current_value and creates no
\* position; an accepted decision on a target that is not held opens exactly
\* one position, at the market map's price (1.0 when absent), with volatility
\* 0.02, the decision's expected_yield as yield_rate and quantity
\* amount / price
C23_ExecutionEffect ==
    \A k \in DOMAIN exec_log :
        exec_log[k].accepted =>
            IF exec_log[k].decision.target_asset
                    \in DOMAIN exec_log[k].positions_before
            THEN IsTopUp(exec_log[k])
            ELSE IsOpening(exec_log[k])

\* the second step of a conservative run topped up its USDC position: more
\* quantity, more value, still one position
C23_Witness ==
    /\ step_count = 2
    /\ Len(exec_log) = 1
    /\ exec_log[1].accepted
    /\ exec_log[1].decision.target_asset = "USDC"
    /\ DOMAIN exec_log[1].positions_before = {"USDC"}
    /\ DOMAIN exec_log[1].positions_after = {"USDC"}
    /\ exec_log[1].positions_after["USDC"].quantity
            > exec_log[1].positions_before["USDC"].quantity
    /\ exec_log[1].positions_after["USDC"].current_value
            = exec_log[1].positions_before["USDC"].current_value
                + exec_log[1].decision.amount

\* C25: every snapshot of the history has total_value = cash +
\* positions_value, and its cash, positions_value and positions_count are the
\* portfolio's cash, the sum of its position values and the number of its
\* positions at the end of the step that recorded it
C25_SnapshotConsistent ==
    /\ \A i \in DOMAIN portfolio_history :
        portfolio_history[i].total_value
            = portfolio_history[i].cash + portfolio_history[i].positions_value
    /\ (step_result = "ok" /\ portfolio_history /= <<>>) =>
        /\ portfolio_history[Len(portfolio_history)].cash = portfolio.cash
        /\ portfolio_history[Len(portfolio_history)].positions_value
                = PositionsValue(portfolio)
        /\ portfolio_history[Len(portfolio_history)].positions_count
                = Cardinality(DOMAIN portfolio.positions)
        /\ portfolio_history[Len(portfolio_history)].total_value
                = portfolio.total_value

\* two snapshots, the second one taken after a step that paid a fee and
\* held a position
C25_Witness ==
    /\ step_result = "ok"
    /\ Len(portfolio_history) = 2
    /\ portfolio_history[2].positions_count >= 1
    /\ portfolio_history[2].positions_value > 0
    /\ portfolio_history[2].cash < portfolio_history[1].cash
    /\ portfolio_history[2].cash = portfolio.cash

\* the market map quotes held symbols only, and every position the last
\* step opened was opened at price 1.0, entry price 1.0 and quantity = amount
C26_State ==
    /\ DOMAIN market_state \subseteq DOMAIN portfolio.positions
    /\ \A k \in DOMAIN exec_log :
        (exec_log[k].accepted /\ ~exec_log[k].held_before) =>
            /\ exec_log[k].decision.target_asset \notin DOMAIN market_state
            /\ exec_log[k].positions_after[exec_log[k].decision.target_asset]
                    .current_price = Dec(1, 1, PriceScale)
            /\ exec_log[k].positions_after[exec_log[k].decision.target_asset]
                    .entry_price = Dec(1, 1, PriceScale)
            /\ exec_log[k].positions_after[exec_log[k].decision.target_asset]
                    .quantity = exec_log[k].decision.amount

\* no transition removes a position
C26_Transition ==
    DOMAIN portfolio.positions \subseteq DOMAIN portfolio'.positions

\* C26: in every reachable Simulator state the market map holds only symbols
\* of held positions and positions are never removed; so every position that
\* decision execution opens is opened at price 1.0, with entry_price 1.0 and
\* quantity equal to the decision's amount
C26_MarketQuotesHeldOnly == []C26_State /\ [][C26_Transition]_vars

\* a step that found prices in the market map and still opened MATIC at 1.0
C26_Witness ==
    /\ DOMAIN market_state /= {}
    /\ \E k \in DOMAIN exec_log :
        /\ exec_log[k].accepted
        /\ ~exec_log[k].held_before
        /\ exec_log[k].positions_before /= EmptyMap
        /\ exec_log[k].decision.target_asset = "MATIC"
        /\ portfolio.positions["MATIC"].entry_price = Dec(1, 1, PriceScale)

\* what a failing step() leaves: the decisions before the rejected one, all
\* accepted, with their positions, cash and fees, on top of the evolved prices
FailedStepKeepsEffects ==
    /\ exec_log' /= <<>>
    /\ ~exec_log'[Len(exec_log')].accepted
    /\ \A j \in 1..(Len(exec_log') - 1) :
        /\ exec_log'[j].accepted
        /\ exec_log'[j + 1].positions_before = exec_log'[j].positions_after
        /\ exec_log'[j + 1].cash_before = exec_log'[j].cash_after
    /\ \E shock \in [DOMAIN portfolio.positions -> Shocks] :
        exec_log'[1].positions_before = EvolvedPositions(portfolio, shock)
    /\ exec_log'[1].cash_before = portfolio.cash
    /\ portfolio'.positions = exec_log'[Len(exec_log')].positions_before
    /\ portfolio'.cash = exec_log'[Len(exec_log')].cash_before
    /\ \A s \in DOMAIN portfolio.positions :
        market_state'[s] = portfolio'.positions[s].current_price

C27_Transition ==
    /\ IsStepCall =>
        /\ step_count' = step_count + 1
        /\ IF step_result' = "ok"
           THEN Len(portfolio_history') = Len(portfolio_history) + 1
           ELSE portfolio_history' = portfolio_history /\ FailedStepKeepsEffects
    /\ IsFinalizeCall => portfolio_history' = portfolio_history

\* C27: a failing step() is not rolled back: the price evolution of the step
\* and the effects of the decisions before the rejected one stay applied and
\* step_count stays incremented, while no snapshot is recorded; the history
\* grows by one in every successful step only, so its length is the number
\* of successful steps and at most step_count
C27_FailedStepNotRolledBack ==
    /\ portfolio_history = <<>> /\ step_count = 0
    /\ [][C27_Transition]_vars
    /\ [](Len(portfolio_history) <= step_count)

\* a first step whose fifth decision was rejected: four positions opened and
\* paid for, the step counted, no snapshot
C27_Witness ==
    /\ step_count = 1
    /\ step_result /= "ok"
    /\ portfolio_history = <<>>
    /\ Len(exec_log) = 5
    /\ Cardinality(DOMAIN portfolio.positions) = 4
    /\ portfolio.cash < exec_log[1].cash_before
    /\ portfolio.cash = exec_log[5].cash_before

----------------------------------------------------------------------------
(* Properties of the Portfolio (PortfolioSpec) *)

\* the total_value cache agrees with the cash and the positions
TotalValueFresh ==
    portfolio.total_value = portfolio.cash + PositionsValue(portfolio)

\* C7 as stated: after update_total_value, add_position, update_prices and
\* every remove_position, total_value = cash + sum of the position values
C7_FreshAfterEveryMethod ==
    last_op.name \in {"update_total_value", "add_position", "update_prices",
                      "remove_position", "remove_position_none"}
        => TotalValueFresh

\* C7 (amended): after update_total_value, add_position, update_prices and a
\* remove_position that finds its symbol, total_value = cash + sum of the
\* position values
C7_FreshAfterUpdate ==
    last_op.name \in {"update_total_value", "add_position", "update_prices",
                      "remove_position"}
        => TotalValueFresh

C7_Witness ==
    /\ last_op.name = "remove_position"
    /\ last_op.calls = 3
    /\ Cardinality(DOMAIN portfolio.positions) = 1
    /\ portfolio.total_value /= portfolio.cash

\* the call just made was add_position of a symbol that was not held
AddedUnheld ==
    /\ last_op.name = "add_position"
    /\ last_op.symbol \notin DOMAIN last_op.before.positions

BeforeWasFresh ==
    last_op.before.total_value =
        last_op.before.cash + PositionsValue(last_op.before)

\* add_position of an unheld symbol took the position's value out of the cash
AddLowersCash ==
    AddedUnheld =>
        portfolio.cash = last_op.before.cash
                            - portfolio.positions[last_op.symbol].current_value

\* remove_position of an unheld symbol changed nothing
RemoveNoneChangesNothing ==
    last_op.name = "remove_position_none" =>
        /\ last_op.symbol \notin DOMAIN last_op.before.positions
        /\ portfolio = last_op.before

\* this transition is remove_position of the symbol the previous call added
RemovesTheAdded ==
    /\ AddedUnheld
    /\ last_op'.name = "remove_position"
    /\ last_op'.calls = last_op.calls + 1
    /\ last_op'.symbol = last_op.symbol

RestoresCashAndSymbols ==
    /\ portfolio'.cash = last_op.before.cash
    /\ DOMAIN portfolio'.positions = DOMAIN last_op.before.positions

\* C28 as stated: add_position of an unheld symbol lowers cash by the
\* position's current_value and leaves total_value unchanged; a following
\* remove_position of that symbol restores cash, total_value and the held
\* symbols; remove_position of an unheld symbol changes nothing
C28_AddThenRemoveRestores ==
    /\ [](AddLowersCash /\ RemoveNoneChangesNothing)
    /\ [](AddedUnheld => portfolio.total_value = last_op.before.total_value)
    /\ [][RemovesTheAdded =>
            /\ RestoresCashAndSymbols
            /\ portfolio'.total_value = last_op.before.total_value]_vars

\* C28 (amended): add_position of an unheld symbol lowers cash by the
\* position's current_value, and a following remove_position of that symbol
\* restores cash and the held symbols; total_value is left unchanged by the
\* add and restored by the remove when it agreed with cash + position values
\* before the add; remove_position of an unheld symbol changes nothing
C28_AddThenRemoveRestoresFresh ==
    /\ [](AddLowersCash /\ RemoveNoneChangesNothing)
    /\ [](AddedUnheld /\ BeforeWasFresh
            => portfolio.total_value = last_op.before.total_value)
    /\ [][RemovesTheAdded =>
            /\ RestoresCashAndSymbols
            /\ BeforeWasFresh
                => portfolio'.total_value = last_op.before.total_value]_vars

\* ETH was added next to a held USDC and then removed again
C28_Witness ==
    /\ last_op.name = "remove_position"
    /\ last_op.symbol = "ETH"
    /\ last_op.calls = 3
    /\ "ETH" \in DOMAIN last_op.before.positions
    /\ DOMAIN portfolio.positions = {"USDC"}
    /\ portfolio.cash = last_op.before.cash
                            + last_op.before.positions["ETH"].current_value
    /\ portfolio.cash < Money(1000)

----------------------------------------------------------------------------
(* Properties of the Monte Carlo engine (MCSpec) *)

\* C3: every trial makes exactly TrialSteps successful step() calls, is then
\* finalized, and its sample is the finalized final_value
C3_TrialsRunAllSteps ==
    \A k \in DOMAIN mc.trials :
        /\ mc.trials[k].run.steps_ok = TrialSteps
        /\ mc.trials[k].run.finalized
        /\ mc.trials[k].sample = mc.trials[k].run.final_value

\* C5: when a step() of some trial failed, run_stress_test returns that error
\* instead of Ok with a number standing in for the trial
C5_TrialFailurePropagates ==
    (mc.pc = "done" /\ mc.ret = "ok") =>
        \A k \in DOMAIN mc.trials : mc.trials[k].run.ret = "ok"

----------------------------------------------------------------------------
(* Properties of the strategies (StrategySpec) *)

\* a and b are the same name up to the case of their letters
SameIgnoringCase(a, b) ==
    /\ Len(a) = Len(b)
    /\ \A i \in DOMAIN a :
        \/ a[i] = b[i]
        \/ \E k \in DOMAIN UpperCase :
                {a[i], b[i]} = {UpperCase[k], LowerCase[k]}

\* the names of the specification and the constructor each of them stands for
NamedVariants ==
    { <<NameConservative, StrategyConservative>>,
      <<NameBalanced, StrategyBalanced>>,
      <<NameAggressive, StrategyAggressive>>,
      <<NameYieldMaximizer, StrategyYieldMaximizer>>,
      <<NameYield, StrategyYieldMaximizer>>,
      <<NameRiskParity, StrategyRiskParity>>,
      <<NameRisk, StrategyRiskParity>> }

\* C11: from_name returns the variant of conservative, balanced, aggressive,
\* yield_maximizer, yield, risk_parity and risk written in any letter case and
\* the unknown-strategy error for every other name; from_name accepts every
\* name of list_all and the strategy it returns has that name
C11_FromName ==
    /\ sel.op = "from_name" =>
        /\ \A p \in NamedVariants :
                SameIgnoringCase(sel.name, p[1]) => sel.ret = StrategyOk(p[2])
        /\ (\A p \in NamedVariants : ~SameIgnoringCase(sel.name, p[1]))
                => sel.ret = UnknownStrategy
    /\ \A i \in DOMAIN ListAll :
        /\ FromName(ListAll[i]).ok
        /\ StrategyName(FromName(ListAll[i]).strategy) = ListAll[i]

\* from_name("YIELD") returned the yield maximizer
C11_Witness ==
    /\ sel.op = "from_name"
    /\ sel.name = <<"Y", "I", "E", "L", "D">>
    /\ sel.ret = StrategyOk(StrategyYieldMaximizer)

\* C12: a strategy obtained from from_name, by canonical name or by alias,
\* returns on every portfolio and market map the decisions that the strategy
\* built by the constructor of that variant returns
C12_SameAsConstructor ==
    (sel.op = "from_name" /\ sel.ret.ok) =>
        \A p \in NamedVariants :
            SameIgnoringCase(sel.name, p[1]) =>
                \A k \in DOMAIN sel.calls :
                    sel.calls[k].decisions =
                        GenerateRoutingDecisions(p[2], sel.calls[k].portfolio,
                                                 sel.calls[k].market_state)

\* from_name("yield") routed 90% of 1,000,000 into MAX_YIELD
C12_Witness ==
    /\ sel.op = "from_name"
    /\ sel.name = NameYield
    /\ Len(sel.calls) = MaxGenerate
    /\ Len(sel.calls[1].decisions) = 1
    /\ sel.calls[1].decisions[1].target_asset = "MAX_YIELD"
    /\ sel.calls[1].decisions[1].amount = Money(900000)

\* the two portfolios agree in what a strategy may read
SamePortfolioState(p, q) ==
    /\ p.cash = q.cash
    /\ p.total_value = q.total_value
    /\ DOMAIN p.positions = DOMAIN q.positions

\* C13: two calls of one strategy with the same cash, total value and held
\* symbols return the same decisions in the same order, whatever the market
\* maps hold and whatever was called before
C13_Deterministic ==
    (sel.op /= "none" /\ sel.ret.ok) =>
        \A j, k \in DOMAIN sel.calls :
            SamePortfolioState(sel.calls[j].portfolio, sel.calls[k].portfolio)
                => sel.calls[j].decisions = sel.calls[k].decisions

\* the balanced strategy called twice with 4,000 cash and USDC and SOL held,
\* at other prices and with another market map the second time
C13_Witness ==
    /\ sel.op /= "none"
    /\ sel.ret = StrategyOk(StrategyBalanced)
    /\ Len(sel.calls) = 2
    /\ SamePortfolioState(sel.calls[1].portfolio, sel.calls[2].portfolio)
    /\ sel.calls[1].portfolio /= sel.calls[2].portfolio
    /\ sel.calls[1].market_state /= sel.calls[2].market_state
    /\ Len(sel.calls[2].decisions) = 3

StatedCostPerMille(strat) ==
    CASE strat = StrategyConservative   -> 1
      [] strat = StrategyBalanced       -> 2
      [] strat = StrategyAggressive     -> 5
      [] strat = StrategyYieldMaximizer -> 3
      [] strat = StrategyRiskParity     -> 2

\* C21: in every decision a built-in strategy generates, execution_cost is
\* the variant's stated percentage of the decision's own amount: 0.1%
\* (conservative), 0.2% (balanced), 0.5% (aggressive), 0.3% (yield maximizer),
\* 0.2% (risk parity)
C21_CostIsShareOfAmount ==
    (sel.op /= "none" /\ sel.ret.ok) =>
        \A k \in DOMAIN sel.calls :
            \A i \in DOMAIN sel.calls[k].decisions :
                sel.calls[k].decisions[i].execution_cost
                    = MulLit(sel.calls[k].decisions[i].amount,
                             StatedCostPerMille(sel.ret.strategy), 1000)

\* the targets of the balanced strategy that the portfolio does not hold, in
\* the order of the list
BalancedTargets(pf) ==
    SelectSeq(<<"USDC", "ETH", "BTC", "SOL", "MATIC">>,
              LAMBDA t : t \notin DOMAIN pf.positions)

\* the target and the amount of each decision, in order
TargetsAndAmounts(decisions) ==
    [i \in DOMAIN decisions |->
        <<decisions[i].target_asset, decisions[i].amount>>]

\* C22: the balanced strategy generates no decision when cash < 1000;
\* otherwise, in the order USDC, ETH, BTC, SOL, MATIC, one decision of
\* 0.2 x cash for each listed symbol that is not held, provided
\* 0.2 x cash > 500, and never a decision for a held symbol
C22_Balanced ==
    (sel.op /= "none" /\ sel.ret = StrategyOk(StrategyBalanced)) =>
        \A k \in DOMAIN sel.calls :
            /\ TargetsAndAmounts(sel.calls[k].decisions) =
                IF \/ sel.calls[k].portfolio.cash < Money(1000)
                   \/ MulLit(sel.calls[k].portfolio.cash, 2, 10) <= Money(500)
                THEN <<>>
                ELSE [i \in DOMAIN BalancedTargets(sel.calls[k].portfolio) |->
                        <<BalancedTargets(sel.calls[k].portfolio)[i],
                          MulLit(sel.calls[k].portfolio.cash, 2, 10)>>]
            /\ \A i \in DOMAIN sel.calls[k].decisions :
                sel.calls[k].decisions[i].target_asset
                    \notin DOMAIN sel.calls[k].portfolio.positions

\* with 4,000 cash and USDC and SOL held: ETH, BTC and MATIC, 800 each; with
\* 2,500 cash: nothing, the tranche of 500 is not above the floor
C22_Witness ==
    /\ sel.op /= "none"
    /\ sel.ret = StrategyOk(StrategyBalanced)
    /\ Len(sel.calls) = 2
    /\ sel.calls[1].portfolio.cash = Money(4000)
    /\ DOMAIN sel.calls[1].portfolio.positions = {"USDC", "SOL"}
    /\ TargetsAndAmounts(sel.calls[1].decisions)
            = << <<"ETH", Money(800)>>, <<"BTC", Money(800)>>,
                 <<"MATIC", Money(800)>> >>
    /\ sel.calls[2].portfolio.cash = Money(2500)
    /\ sel.calls[2].decisions = <<>>

----------------------------------------------------------------------------
(* Properties of the risk metrics (MetricsSpec) *)

PercentileKeys == {5, 25, 50, 75, 95}

\* C16: the percentiles map of run_stress_test has exactly the keys 5, 25,
\* 50, 75 and 95; the value at p is the element at index
\* min(floor(p x n), n - 1) of the ascending-sorted sample, 0 for an empty
\* sample; the values do not decrease with p
C16_Percentiles ==
    calc.fn = "statistics" =>
        /\ DOMAIN calc.ret.percentiles = PercentileKeys
        /\ \A p \in PercentileKeys :
            calc.ret.percentiles[p] =
                IF calc.samples = <<>> THEN 0
                ELSE IF (p * Len(calc.samples)) \div 100 < Len(calc.samples) - 1
                THEN SortAscending(calc.samples)[((p * Len(calc.samples)) \div 100) + 1]
                ELSE SortAscending(calc.samples)[Len(calc.samples)]
        /\ \A p, q \in PercentileKeys :
            p <= q => calc.ret.percentiles[p] <= calc.ret.percentiles[q]

\* the percentiles of twenty different unsorted samples: p5 is the second
\* smallest one, p95 the greatest
C16_Witness ==
    /\ calc.fn = "statistics"
    /\ calc.samples = MSample(20, 2)
    /\ calc.ret.percentiles[5] = Money(2)
    /\ calc.ret.percentiles[50] = Money(11)
    /\ calc.ret.percentiles[95] = Money(20)

\* the total values of the history never fall
NonDecreasing(history) ==
    \A i \in 1..(Len(history) - 1) :
        history[i].total_value <= history[i + 1].total_value

\* C17: the maximum drawdown of RiskCalculator::max_drawdown and of the
\* simulator's finalize is never negative, and it is 0 for every history
\* whose total values never fall
C17_MaxDrawdown ==
    /\ calc.fn = "max_drawdown" =>
        /\ ~FIsNegative(calc.ret)
        /\ NonDecreasing(calc.history) => FIsZero(calc.ret)
    /\ calc.fn = "finalize" =>
        /\ ~FIsNegative(calc.max_drawdown_pct)
        /\ NonDecreasing(calc.history) => FIsZero(calc.max_drawdown_pct)

\* RiskCalculator::max_drawdown of the totals 100, 110, 121 returned 0
C17_Witness ==
    /\ calc.fn = "max_drawdown"
    /\ Len(calc.history) = 3
    /\ calc.history[1].total_value = Money(100)
    /\ calc.history[2].total_value = Money(110)
    /\ calc.history[3].total_value = Money(121)
    /\ FIsZero(calc.ret)

\* the return at `index` of the sorted returns times the value, with its sign
ReturnTimesValue(sorted, index, value) ==
    sorted[index + 1].s * MoneyTimesF64(value, FAbs(sorted[index + 1]))

\* the VaR the historical method gives for the sorted returns at 0.95
HistoricalVar(sorted, value) ==
    IF sorted = <<>> THEN 0
    ELSE ReturnTimesValue(sorted, (5 * Len(sorted)) \div 100, value)

\* C18: the value_at_risk of finalize is the return at index
\* floor((1 - confidence) x n) of the ascending-sorted step-to-step returns
\* times the current total value of the portfolio, and 0 when there is no
\* return
C18_VarIsReturnTimesValue ==
    calc.fn = "finalize" =>
        calc.value_at_risk =
            HistoricalVar(FSortAscending(StepReturns(HistoryValues(calc.history))),
                          calc.current_value)

\* all elements of the series are the same
AllSame(series) == \A i, j \in DOMAIN series : series[i] = series[j]

\* C19: the Sharpe ratio of RiskCalculator::sharpe_ratio and of the
\* simulator's finalize is 0 for an empty return series and for a series
\* whose returns are all the same, whatever their value
C19_SharpeZeroWithoutSpread ==
    /\ (calc.fn = "sharpe_ratio" /\ AllSame(calc.returns)) => FIsZero(calc.ret)
    /\ (calc.fn = "finalize"
            /\ AllSame(StepReturns(HistoryValues(calc.history))))
        => FIsZero(calc.sharpe_ratio)

\* the f64 times the value, with the sign of the f64
SignedTimesValue(x, value) == x.s * MoneyTimesF64(value, FAbs(x))

\* the average of the returns below the VaR index at 0.95 times the value,
\* 0 when there is none
HistoricalCvar(sorted, value) ==
    IF (5 * Len(sorted)) \div 100 = 0 THEN 0
    ELSE SignedTimesValue(
            FDiv(FSum(SubSeq(sorted, 1, (5 * Len(sorted)) \div 100)),
                 FFromInt((5 * Len(sorted)) \div 100)),
            value)

\* C24: the conditional_var of finalize is the average of the ascending-
\* sorted returns at the indices below floor((1 - confidence) x n) times the
\* current total value of the portfolio, and 0 when that tail is empty, as
\* it is with fewer than 20 returns
C24_CvarIsTailAverageTimesValue ==
    calc.fn = "finalize" =>
        /\ calc.conditional_var =
            HistoricalCvar(FSortAscending(StepReturns(HistoryValues(calc.history))),
                           calc.current_value)
        /\ Len(calc.history) < 21 => calc.conditional_var = 0

----------------------------------------------------------------------------
(* Properties of the Monte Carlo tail statistics (MCSpec) *)

\* the samples collected so far and the tail index the statistics would use
McSamples == IF mc.pc = "idle" THEN <<>> ELSE mc.final_values \o mc.batch_results
McTailIndexNow == TailIndex(mc.confidence_level, Len(McSamples))

\* the index stays within 0..n at every sample count the run passes through
TailIndexInRange ==
    mc.pc /= "idle" => McTailIndexNow \in 0..Len(McSamples)

\* a finished run returned Ok, and its VaR is the bounds-checked lookup
FinishedOk ==
    mc.pc = "done" =>
        /\ mc.ret = "ok"
        /\ Len(mc.results.distribution) = mc.iterations
        /\ mc.results.value_at_risk =
              IF McTailIndexNow < Len(McSamples)
              THEN SortAscending(McSamples)[McTailIndexNow + 1]
              ELSE 0

\* a call that has not returned has a next step: another trial of the batch,
\* the end of the batch, or the statistics after the last batch; the loop
\* counters stay within the iterations, so the steps are finitely many
CallProceeds ==
    mc.pc = "running" =>
        /\ mc.batch <= McBatches
        /\ mc.next_trial <= mc.iterations
        /\ Len(McSamples) = mc.next_trial
        /\ mc.batch < McBatches =>
            /\ mc.next_trial <= McBatchEnd
            /\ mc.next_trial < McBatchEnd => RunSingleSimulation /= {}

====
